---- MODULE Spec2Model ----
(***************************************************************************)
(* RF603 oscillation analyzer (src/dekrement.py): the analysis session of  *)
(* class RF603OscillationAnalyzer, its operations, and the handlers of the *)
(* interactive menu in main() that drive it.                               *)
(*                                                                         *)
(* Units.  Timestamps are integers counting tenths of a second, distances  *)
(* are integers counting half millimetres.  A period is kept as the exact  *)
(* fraction num/den (sum of the periods kept, number of periods kept).     *)
(* Logarithms and square roots are computed in fixed point, in thousandths *)
(* (0.001); the float values -inf and nan are kept as such.                 *)
(***************************************************************************)
EXTENDS Integers, Sequences, FiniteSets, TLC

VARIABLES
    data,                       \* self.data
    processed_data,             \* self.processed_data
    original_processed_data,    \* self.original_processed_data
    oscillation_start,          \* self.oscillation_start
    oscillation_end,            \* self.oscillation_end
    corrected_peaks,            \* self.corrected_peaks
    current_period,             \* self.current_period
    current_frequency,          \* self.current_frequency
    log_decrement,              \* self.log_decrement
    damping_ratio,              \* self.damping_ratio
    loss_factor,                \* self.loss_factor
    directory,                  \* the CSV files that can be read
    op,                         \* the operation that ran last
    args,                       \* the arguments it was called with
    ret,                        \* what it returned
    norm_src,                   \* the rows the last successful normalize_data read
    recorder,                   \* the DataRecorder of rf603_logger.py
    main_window,                \* the MainWindow of rf603_gui.py and its DataRecordThread
    pc,                         \* where each thread of the two programs stands
    analyzer                    \* the RF603OscillationAnalyzer of rf603_logger.py

vars == <<data, processed_data, original_processed_data, oscillation_start,
          oscillation_end, corrected_peaks, current_period, current_frequency,
          log_decrement, damping_ratio, loss_factor, directory, op, args,
          ret, norm_src, recorder, main_window, pc, analyzer>>

----------------------------------------------------------------------------
(* Python values *)

\* None
None == [none |-> TRUE]

\* any value that is not None
Some(x) == [none |-> FALSE, val |-> x]

IsNone(o) == o.none

\* a finite float, in thousandths
Fin(v) == [none |-> FALSE, kind |-> "fin", v |-> v]

\* float('-inf')
NegInf == [none |-> FALSE, kind |-> "-inf", v |-> 0]

\* float('nan')
NaN == [none |-> FALSE, kind |-> "nan", v |-> 0]

\* an exact fraction num/den
Rat(n, d) == [none |-> FALSE, num |-> n, den |-> d]

\* a pandas DataFrame: its rows, and whether it has the normalized column
Frame(rows, hasNorm) == [none |-> FALSE, rows |-> rows, hasNorm |-> hasNorm]

\* one row of the CSV table
Row(t, d) == [t |-> t, d |-> d, n |-> 0]

----------------------------------------------------------------------------
(* Arithmetic *)

Abs(x) == IF x < 0 THEN -x ELSE x

Max2(a, b) == IF a >= b THEN a ELSE b

Min2(a, b) == IF a <= b THEN a ELSE b

\* division rounding toward zero
DivT(a, b) == IF a >= 0 THEN a \div b ELSE -((-a) \div b)

\* division rounding to nearest
DivR(a, b) == IF a >= 0 THEN (2 * a + b) \div (2 * b) ELSE -((2 * (-a) + b) \div (2 * b))

RECURSIVE SeqSum(_)
SeqSum(s) == IF s = <<>> THEN 0 ELSE Head(s) + SeqSum(Tail(s))

RECURSIVE SeqMax(_)
SeqMax(s) == IF Len(s) = 1 THEN s[1] ELSE Max2(Head(s), SeqMax(Tail(s)))

RECURSIVE SeqMin(_)
SeqMin(s) == IF Len(s) = 1 THEN s[1] ELSE Min2(Head(s), SeqMin(Tail(s)))

RECURSIVE Insert(_, _)
Insert(x, s) ==
    IF s = <<>> THEN <<x>>
    ELSE IF x <= Head(s) THEN <<x>> \o s
    ELSE <<Head(s)>> \o Insert(x, Tail(s))

\* sorted(s), list.sort()
RECURSIVE Sorted(_)
Sorted(s) == IF s = <<>> THEN <<>> ELSE Insert(Head(s), Sorted(Tail(s)))

\* the elements of s that satisfy Keep, in order
RECURSIVE SelectIdx(_, _, _)
SelectIdx(s, keep, i) ==
    IF i > Len(s) THEN <<>>
    ELSE (IF i \in keep THEN <<s[i]>> ELSE <<>>) \o SelectIdx(s, keep, i + 1)

\* floor of the square root
RECURSIVE ISqrtIn(_, _, _)
ISqrtIn(x, lo, hi) ==
    IF lo >= hi THEN lo
    ELSE LET mid == (lo + hi + 1) \div 2
         IN IF mid * mid <= x THEN ISqrtIn(x, mid, hi) ELSE ISqrtIn(x, lo, mid - 1)

ISqrt(x) == ISqrtIn(x, 0, 46340)

\* p/q brought into [1, 2) by powers of two: <<p, q, e>> with p/q * 2^e the ratio
RECURSIVE LnReduce(_, _, _)
LnReduce(p, q, e) ==
    IF p >= 2 * q THEN LnReduce(p, 2 * q, e + 1)
    ELSE IF p < q THEN LnReduce(2 * p, q, e - 1)
    ELSE <<p, q, e>>

\* np.log(p / q) for p, q > 0, in thousandths:
\* ln(x) = e ln 2 + 2 atanh((m - 1)/(m + 1)), m in [1, 2)
LnRatio(p, q) ==
    LET r  == LnReduce(p, q, 0)
        z  == ((r[1] - r[2]) * 10000) \div (r[1] + r[2])
        z2 == (z * z) \div 10000
        z3 == (z * z2) \div 10000
        z5 == (z3 * z2) \div 10000
        z7 == (z5 * z2) \div 10000
        s  == 2 * (z + z3 \div 3 + z5 \div 5 + z7 \div 7)
    IN DivR(r[3] * 6931 + s, 10)

----------------------------------------------------------------------------
(* scipy.signal as called by _find_peaks_adaptive.  A signal is a sequence  *)
(* of integers; indices are the 0-based indices of the code.               *)

\* x[i] of a numpy array
At(x, i) == x[i + 1]

\* the local maxima scipy's find_peaks starts from: the midpoint of every
\* plateau that is higher than both its neighbours, the two ends excluded
RECURSIVE LocalMaximaFrom(_, _)
LocalMaximaFrom(x, i) ==
    LET i_max == Len(x) - 1
        Ahead[j \in 0..Len(x)] ==
            IF j < i_max /\ At(x, j) = At(x, i) THEN Ahead[j + 1] ELSE j
        i_ahead == Ahead[i + 1]
    IN IF i >= i_max THEN <<>>
       ELSE IF At(x, i - 1) < At(x, i) /\ At(x, i_ahead) < At(x, i)
            THEN <<(i + i_ahead - 1) \div 2>> \o LocalMaximaFrom(x, i_ahead + 1)
            ELSE LocalMaximaFrom(x, i + 1)

LocalMaxima(x) == IF Len(x) < 3 THEN <<>> ELSE LocalMaximaFrom(x, 1)

\* find_peaks(distance=d): peaks are visited from the highest to the lowest
\* (of equal ones the later first); a visited peak that is still kept drops
\* every peak closer than d samples.  keep is the set of positions still
\* kept, todo the positions not visited yet.
RECURSIVE SelectByDistance(_, _, _, _, _)
SelectByDistance(x, peaks, d, keep, todo) ==
    IF todo = {} THEN keep
    ELSE LET j == CHOOSE a \in todo : \A b \in todo :
                      \/ At(x, peaks[a]) > At(x, peaks[b])
                      \/ At(x, peaks[a]) = At(x, peaks[b]) /\ a >= b
             near == {k \in DOMAIN peaks : k # j /\ Abs(peaks[k] - peaks[j]) < d}
         IN IF j \in keep
            THEN SelectByDistance(x, peaks, d, keep \ near, todo \ {j})
            ELSE SelectByDistance(x, peaks, d, keep, todo \ {j})

\* peak_prominences: walking left (dir = -1) or right (dir = 1) from the peak
\* while the signal stays at or below it, the lowest value met and where
RECURSIVE BaseWalk(_, _, _, _, _, _)
BaseWalk(x, peak, dir, i, lowest, base) ==
    IF i < 0 \/ i > Len(x) - 1 \/ At(x, i) > At(x, peak)
    THEN [min |-> lowest, base |-> base]
    ELSE IF At(x, i) < lowest
         THEN BaseWalk(x, peak, dir, i + dir, At(x, i), i)
         ELSE BaseWalk(x, peak, dir, i + dir, lowest, base)

LeftBase(x, peak) == BaseWalk(x, peak, -1, peak, At(x, peak), peak)

RightBase(x, peak) == BaseWalk(x, peak, 1, peak, At(x, peak), peak)

Prominence(x, peak) ==
    At(x, peak) - Max2(LeftBase(x, peak).min, RightBase(x, peak).min)

\* peak_widths at half prominence: the walk from the peak toward a base
\* while the signal is above the evaluation height h2/2
RECURSIVE WidthWalk(_, _, _, _, _)
WidthWalk(x, h2, dir, i, base) ==
    IF (IF dir < 0 THEN base < i ELSE i < base) /\ h2 < 2 * At(x, i)
    THEN WidthWalk(x, h2, dir, i + dir, base)
    ELSE i

\* how far from sample i, toward the peak, the signal crosses the evaluation
\* height h2/2 (linear interpolation): the fraction <<num, den>> of one step
Crossing(x, h2, i, step) ==
    IF 2 * At(x, i) < h2
    THEN <<h2 - 2 * At(x, i), 2 * (At(x, i + step) - At(x, i))>>
    ELSE <<0, 1>>

\* (ir - r) - (il + l) >= w for the fractions l and r
WidthBetween(w, il, ir, l, r) ==
    (ir - il - w) * l[2] * r[2] >= r[1] * l[2] + l[1] * r[2]

WidthEnds(x, w, h2, il, ir) ==
    WidthBetween(w, il, ir, Crossing(x, h2, il, 1), Crossing(x, h2, ir, -1))

WidthAtHeight(x, peak, w, h2) ==
    WidthEnds(x, w, h2,
              WidthWalk(x, h2, -1, peak, LeftBase(x, peak).base),
              WidthWalk(x, h2, 1, peak, RightBase(x, peak).base))

\* width >= w, measured at half the prominence below the peak
WidthAtLeast(x, peak, w) ==
    WidthAtHeight(x, peak, w, 2 * At(x, peak) - Prominence(x, peak))

\* find_peaks without the height condition
by_height_off(x, peaks, amplitude, hdiv) == peaks

\* find_peaks(height=amplitude/hdiv)
by_height(x, peaks, amplitude, hdiv) ==
    SelectIdx(peaks, {k \in DOMAIN peaks : hdiv * At(x, peaks[k]) >= amplitude}, 1)

\* find_peaks(distance=dist)
by_distance(x, peaks, dist) ==
    SelectIdx(peaks, SelectByDistance(x, peaks, dist, DOMAIN peaks, DOMAIN peaks), 1)

\* find_peaks(prominence=amplitude/pdiv)
by_prominence(x, peaks, amplitude, pdiv) ==
    SelectIdx(peaks, {k \in DOMAIN peaks : pdiv * Prominence(x, peaks[k]) >= amplitude}, 1)

\* find_peaks(width=w), no width condition when w = 0
by_width(x, peaks, w) ==
    IF w = 0 THEN peaks
    ELSE SelectIdx(peaks, {k \in DOMAIN peaks : WidthAtLeast(x, peaks[k], w)}, 1)

\* find_peaks(x, height=amplitude/hdiv, distance=dist,
\*            prominence=amplitude/pdiv, width=w): the conditions in scipy's order
find_peaks(x, amplitude, hdiv, dist, pdiv, w) ==
    by_width(x,
        by_prominence(x,
            by_distance(x, by_height(x, LocalMaxima(x), amplitude, hdiv), dist),
            amplitude, pdiv),
        w)

\* argrelextrema(x, np.greater, order): strictly greater than every sample
\* within order steps on both sides, indices past an end clipped to the end
argrelextrema(x, order) ==
    LET n == Len(x)
        isMax(i) == \A s \in 1..order :
                        /\ At(x, i) > At(x, Min2(i + s, n - 1))
                        /\ At(x, i) > At(x, Max2(i - s, 0))
    IN SelectIdx([k \in 1..n |-> k - 1], {k \in 1..n : isMax(k - 1)}, 1)

\* 2 * np.gradient(f): central differences inside, one-sided at the ends
gradient2(f) ==
    LET n == Len(f)
    IN [k \in 1..n |->
          IF k = 1 THEN 2 * (f[2] - f[1])
          ELSE IF k = n THEN 2 * (f[n] - f[n - 1])
          ELSE f[k + 1] - f[k - 1]]

----------------------------------------------------------------------------
(* The numeric steps of RF603OscillationAnalyzer *)

\* row k of the least-squares cubic fit over 11 samples, times SavgolDen
SavgolRows ==
    << << 678,  288,   48,  -72, -102,  -72,  -12,   48,   78,   48,  -72>>,
       << 288,  246,  192,  132,   72,   18,  -24,  -48,  -48,  -18,   48>>,
       <<  48,  192,  246,  232,  172,   88,    2,  -64,  -88,  -48,   78>>,
       << -72,  132,  232,  251,  212,  138,   52,  -23,  -64,  -48,   48>>,
       <<-102,   72,  172,  212,  206,  168,  112,   52,    2,  -24,  -12>>,
       << -72,   18,   88,  138,  168,  178,  168,  138,   88,   18,  -72>>,
       << -12,  -24,    2,   52,  112,  168,  206,  212,  172,   72, -102>>,
       <<  48,  -48,  -64,  -23,   52,  138,  212,  251,  232,  132,  -72>>,
       <<  78,  -48,  -88,  -64,    2,   88,  172,  232,  246,  192,   48>>,
       <<  48,  -18,  -48,  -48,  -24,   18,   72,  132,  192,  246,  288>>,
       << -72,   48,   78,   48,  -12,  -72, -102,  -72,   48,  288,  678>> >>

\* window_length of savgol_filter(distances, 11, 3)
SavgolWindow == 11

\* savgol_filter(x, 11, 3) times 858 (mode 'interp'): the cubic fitted to the
\* window centred on a sample, and at both ends the cubic fitted to the
\* first/last 11 samples
savgol_filter(x) ==
    LET n == Len(x)
        half == SavgolWindow \div 2
        dot(row, first) == SeqSum([j \in 1..SavgolWindow |-> row[j] * x[first + j - 1]])
    IN [k \in 1..n |->
          IF k <= half THEN dot(SavgolRows[k], 1)
          ELSE IF k > n - half THEN dot(SavgolRows[k - (n - SavgolWindow)], n - SavgolWindow + 1)
          ELSE dot(SavgolRows[half + 1], k - half)]

\* strategy 4: where the second derivative goes from positive to negative
inflection_points(signal) ==
    LET sd == gradient2(gradient2(signal))
        n == Len(signal)
    IN SelectIdx([k \in 1..n |-> k - 1],
                 {k \in 2..n : sd[k - 1] * sd[k] < 0 /\ sd[k - 1] > 0}, 1)

strategy1(signal, amplitude) ==
    find_peaks(signal, amplitude, 10, Max2(3, Len(signal) \div 20), 20, 2)

strategy2(signal) == argrelextrema(signal, 3)

strategy3(signal, amplitude) == find_peaks(signal, amplitude, 20, 2, 50, 0)

\* np.gradient raises on fewer than 2 samples and the strategy is skipped
strategy4(signal) == IF Len(signal) < 2 THEN <<>> ELSE inflection_points(signal)

\* the peaks of a strategy returned as soon as there is one
first_enough_any(found, enough, otherwise) ==
    IF Len(found) >= 1 THEN found ELSE otherwise

\* the peaks of a strategy are returned when there are enough of them,
\* otherwise the next strategy is tried
first_enough(found, enough, otherwise) ==
    IF Len(found) >= enough THEN found ELSE otherwise

_find_peaks_adaptive(signal, amplitude) ==
    first_enough(strategy1(signal, amplitude), 3,
        first_enough(strategy2(signal), 3,
            first_enough(strategy3(signal, amplitude), 2,
                first_enough(strategy4(signal), 2, <<>>))))

\* amplitude = np.max(distances_smooth) - np.min(distances_smooth)
smoothed_peaks(distances_smooth) ==
    _find_peaks_adaptive(distances_smooth,
                         SeqMax(distances_smooth) - SeqMin(distances_smooth))

\* the automatic branch of calculate_period_frequency_improved
detect_peaks(distances) ==
    smoothed_peaks(IF Len(distances) > SavgolWindow THEN savgol_filter(distances)
                   ELSE distances)

\* 4 * np.percentile(a, q) for q = 25 * quarter, linear interpolation
percentile4(a, quarter) ==
    LET s == Sorted(a)
        pos == (Len(a) - 1) * quarter
        k == pos \div 4
        r == pos % 4
    IN IF r = 0 THEN 4 * s[k + 1] ELSE 4 * s[k + 1] + r * (s[k + 2] - s[k + 1])

\* the periods between consecutive peaks
periods_of(peaks, timestamps) ==
    [i \in 1..(Len(peaks) - 1) |-> At(timestamps, peaks[i + 1]) - At(timestamps, peaks[i])]

\* the interquartile filter with the bounds themselves left out
in_bounds_strict(p, Q1, Q3) ==
    /\ 2 * Q1 - 3 * (Q3 - Q1) < 8 * p
    /\ 8 * p < 2 * Q3 + 3 * (Q3 - Q1)

\* the interquartile filter: lower_bound <= p <= upper_bound, times 8
in_bounds(p, Q1, Q3) ==
    /\ 2 * Q1 - 3 * (Q3 - Q1) <= 8 * p
    /\ 8 * p <= 2 * Q3 + 3 * (Q3 - Q1)

filter_periods(periods) ==
    IF Len(periods) >= 3
    THEN SelectIdx(periods,
             {k \in DOMAIN periods :
                  in_bounds(periods[k], percentile4(periods, 1), percentile4(periods, 3))}, 1)
    ELSE periods

\* np.mean(kept) and its inverse
mean_period(kept) ==
    [period |-> Rat(SeqSum(kept), Len(kept)),
     frequency |-> IF SeqSum(kept) > 0 THEN Rat(Len(kept), SeqSum(kept)) ELSE Rat(0, 1)]

\* filtered_periods if len(filtered_periods) > 0 else periods
filtered_or_all(filtered, periods) == IF filtered = <<>> THEN periods ELSE filtered

periods_estimate(periods) == mean_period(filtered_or_all(filter_periods(periods), periods))

\* the estimate asking for 3 peaks
period_estimate_three(peaks, timestamps) ==
    IF Len(peaks) < 3 THEN [period |-> None, frequency |-> None]
    ELSE periods_estimate(periods_of(peaks, timestamps))

\* avg_period and frequency of calculate_period_frequency_improved, from the
\* peaks it settled on; None when there are fewer than 2
period_estimate(peaks, timestamps) ==
    IF Len(peaks) < 2 THEN [period |-> None, frequency |-> None]
    ELSE periods_estimate(periods_of(peaks, timestamps))

\* 4 pi^2, in millionths
FourPiSq == 39478418

\* avg_decrement / sqrt(4 pi^2 + avg_decrement^2)
damping_of(delta) ==
    IF delta.kind # "fin" THEN NaN
    ELSE Fin(DivT(delta.v * 1000, ISqrt(FourPiSq + delta.v * delta.v)))

\* 2 * damping_ratio
loss_of(zeta) == IF zeta.kind # "fin" THEN NaN ELSE Fin(2 * zeta.v)

\* np.mean of the decrements of the pairs whose later amplitude is not 0;
\* np.log(0) is -inf
mean_decrement(amplitudes, pairs) ==
    IF \E i \in pairs : amplitudes[i] = 0 THEN NegInf
    ELSE Fin(DivT(SeqSum(SelectIdx([i \in 1..(Len(amplitudes) - 1) |->
                                        IF i \in pairs
                                        THEN LnRatio(amplitudes[i], amplitudes[i + 1])
                                        ELSE 0],
                                   pairs, 1)),
                  Cardinality(pairs)))

\* the three values returned for a mean decrement
decrement_triple(avg_decrement) ==
    [delta |-> avg_decrement,
     zeta |-> damping_of(avg_decrement),
     eta |-> loss_of(damping_of(avg_decrement))]

\* the pairs (A_i, A_i+1) with A_i+1 not 0
valid_pairs(amplitudes) == {i \in 1..(Len(amplitudes) - 1) : amplitudes[i + 1] > 0}

decrement_of(amplitudes, pairs) ==
    IF pairs = {} THEN [delta |-> None, zeta |-> None, eta |-> None]
    ELSE decrement_triple(mean_decrement(amplitudes, pairs))

\* amplitudes = np.abs(distances[peaks])
amplitudes_of(peaks, distances) == [i \in DOMAIN peaks |-> Abs(At(distances, peaks[i]))]

\* what calculate_logarithmic_decrement returns (and stores unless None)
calculate_logarithmic_decrement(peaks, distances) ==
    IF Len(peaks) < 2
    THEN [delta |-> None, zeta |-> None, eta |-> None]
    ELSE decrement_of(amplitudes_of(peaks, distances),
                      valid_pairs(amplitudes_of(peaks, distances)))

\* a field that calculate_logarithmic_decrement assigns only on success
stored(old, new) == IF IsNone(new) THEN old ELSE new

\* the strictly increasing list of the indices in S
RECURSIVE Increasing(_)
Increasing(S) ==
    IF S = {} THEN <<>>
    ELSE <<CHOOSE m \in S : \A k \in S : m <= k>>
             \o Increasing(S \ {CHOOSE m \in S : \A k \in S : m <= k})

\* every list of peak indices into a series of n samples
PeakLists(n) == {Increasing(S) : S \in SUBSET (0..(n - 1))}

----------------------------------------------------------------------------
(* The session object and its methods.  A method is an operator from the   *)
(* object (a record of its fields) and the arguments to the object after   *)
(* the call and the value returned.                                        *)

\* RF603OscillationAnalyzer.__init__
__init__ ==
    [data |-> None, processed_data |-> None, original_processed_data |-> None,
     oscillation_start |-> 0, oscillation_end |-> 0, corrected_peaks |-> None,
     current_period |-> None, current_frequency |-> None,
     log_decrement |-> None, damping_ratio |-> None, loss_factor |-> None]

\* the object in the current state
Self ==
    [data |-> data, processed_data |-> processed_data,
     original_processed_data |-> original_processed_data,
     oscillation_start |-> oscillation_start, oscillation_end |-> oscillation_end,
     corrected_peaks |-> corrected_peaks,
     current_period |-> current_period, current_frequency |-> current_frequency,
     log_decrement |-> log_decrement, damping_ratio |-> damping_ratio,
     loss_factor |-> loss_factor]

\* a returned value: the success flag, the (period, frequency, peaks) triple,
\* the peaks the estimate was made from, the (decrement, damping ratio, loss
\* factor) triple, the report written, and the branch that returned
Ret(ok, why) ==
    [ok |-> ok, period |-> None, frequency |-> None, peaks |-> None,
     used |-> None, decrement |-> None, report |-> None, why |-> why]

Result(self, r) == [self |-> self, ret |-> r]

\* the column 'Временная_метка'
timestamps_of(frame) == [i \in DOMAIN frame.rows |-> frame.rows[i].t]

\* the column 'Расстояние_норм'
distances_of(frame) == [i \in DOMAIN frame.rows |-> frame.rows[i].n]

\* the assignments of clear_results without the one to corrected_peaks
clear_results_keep(self) ==
    [self EXCEPT !.current_period = None, !.current_frequency = None,
                 !.log_decrement = None, !.loss_factor = None,
                 !.damping_ratio = None]

\* the six assignments that drop the corrected peaks and the results
clear_results(self) ==
    [self EXCEPT !.corrected_peaks = None,
                 !.current_period = None, !.current_frequency = None,
                 !.log_decrement = None, !.loss_factor = None,
                 !.damping_ratio = None]

\* the names load_csv is given: a table with a header and no rows, four
\* recordings, and a table whose timestamps do not ascend
FileNames == {"empty", "step", "swing", "release", "unordered", "decay"}

\* the directories the program is run in: load_csv can read the files of the
\* directory and no other
Directories == {{"swing"}, {"step"}, {"release"}, {"empty", "unordered"}}

\* t = 0 .. 0.6 s, distance = 100, 105, 100, 95, 100, 97.5, 100 mm
FileStep ==
    <<Row(0, 200), Row(1, 210), Row(2, 200), Row(3, 190), Row(4, 200),
      Row(5, 195), Row(6, 200)>>

\* three maxima of 2 mm, 4 mm and 1 mm above the first sample, the last two
\* samples late
FileSwing ==
    <<Row(0, 100), Row(1, 104), Row(2, 100), Row(3, 108), Row(4, 100),
      Row(9, 102), Row(10, 100)>>

\* at rest for 1.5 s, then one excursion of 4 mm
FileRelease ==
    [i \in 1..17 |-> Row(i - 1, IF i = 16 THEN 208 ELSE 200)]

\* t = 0, 0.2, 0.1 s: the third row is older than the second
FileUnordered == <<Row(0, 200), Row(2, 204), Row(1, 200)>>

\* t = 0 .. 0.8 s: a maximum of 4 mm at 0.2 s and one of 2 mm at 0.6 s
FileDecay ==
    <<Row(0, 200), Row(1, 204), Row(2, 208), Row(3, 204), Row(4, 200),
      Row(5, 202), Row(6, 204), Row(7, 202), Row(8, 200)>>

FileRows(filename) ==
    CASE filename = "step" -> FileStep
      [] filename = "unordered" -> FileUnordered
      [] filename = "swing" -> FileSwing
      [] filename = "release" -> FileRelease
      [] filename = "decay" -> FileDecay
      [] OTHER -> <<>>

load_csv(self, filename) ==
    IF filename \notin directory THEN Result(self, Ret(FALSE, "read_error"))
    ELSE IF FileRows(filename) = <<>>
         THEN Result([self EXCEPT !.data = Frame(<<>>, FALSE)], Ret(FALSE, "error"))
         ELSE Result([self EXCEPT !.data = Frame(FileRows(filename), FALSE)],
                     Ret(TRUE, "ok"))

\* the rows with 'Расстояние_норм' = 'Расстояние_мм' - first_distance
normalized(rows) == [i \in DOMAIN rows |-> [rows[i] EXCEPT !.n = rows[i].d - rows[1].d]]

normalize_data(self) ==
    IF IsNone(self.data) THEN Result(self, Ret(FALSE, "no_data"))
    ELSE IF self.data.rows = <<>>
         THEN Result([self EXCEPT !.processed_data = self.data], Ret(FALSE, "error"))
         ELSE Result(clear_results(
                         [self EXCEPT
                              !.processed_data = Frame(normalized(self.data.rows), TRUE),
                              !.original_processed_data =
                                  Frame(normalized(self.data.rows), TRUE)]),
                     Ret(TRUE, "ok"))

reset_to_original(self) ==
    IF ~IsNone(self.original_processed_data)
    THEN Result(clear_results(
                    [self EXCEPT
                         !.processed_data = self.original_processed_data,
                         !.oscillation_start = 0,
                         !.oscillation_end = Len(self.original_processed_data.rows) - 1]),
                Ret(TRUE, "ok"))
    ELSE Result(self, Ret(FALSE, "no_data"))

\* rows[start:end + 1]
slice(rows, start, end) == SubSeq(rows, start + 1, Min2(end + 1, Len(rows)))

\* crop_by_points cutting the frozen baseline along with the active series
crop_by_points_inplace(self, start_point, end_point) ==
    IF IsNone(self.processed_data) THEN Result(self, Ret(FALSE, "no_data"))
    ELSE Result(clear_results(
                    [self EXCEPT
                         !.processed_data.rows =
                             slice(self.processed_data.rows,
                                   Max2(0, Min2(start_point, Len(self.processed_data.rows) - 1)),
                                   Len(self.processed_data.rows) - 1),
                         !.original_processed_data = self.processed_data]),
                Ret(Len(self.processed_data.rows) > 0, "ok"))

crop_by_points(self, start_point, end_point) ==
    IF IsNone(self.processed_data) THEN Result(self, Ret(FALSE, "no_data"))
    ELSE LET n == Len(self.processed_data.rows)
             start_idx == Max2(0, Min2(start_point, n - 1))
             end_idx == Max2(start_idx + 1, Min2(end_point, n - 1))
             cropped == clear_results(
                 [self EXCEPT
                      !.processed_data.rows = slice(self.processed_data.rows, start_idx, end_idx),
                      !.oscillation_start = start_idx,
                      !.oscillation_end = end_idx])
         IN \* with no row left the report of the new time range raises
            IF n = 0 THEN Result(cropped, Ret(FALSE, "error"))
            ELSE Result(cropped, Ret(TRUE, "ok"))

\* crop_by_time taking the first or the last row for a bound no sample matches
crop_by_time_clamped(self, start_time, end_time) ==
    IF IsNone(self.processed_data) THEN Result(self, Ret(FALSE, "no_data"))
    ELSE LET t == timestamps_of(self.processed_data)
             start_mask == {i \in DOMAIN t : t[i] >= start_time}
             end_mask == {i \in DOMAIN t : t[i] <= end_time}
         IN crop_by_points(self,
                IF start_mask = {} THEN Len(t) - 1
                ELSE (CHOOSE i \in start_mask : \A j \in start_mask : i <= j) - 1,
                IF end_mask = {} THEN 0
                ELSE (CHOOSE i \in end_mask : \A j \in end_mask : i >= j) - 1)

crop_by_time(self, start_time, end_time) ==
    IF IsNone(self.processed_data) THEN Result(self, Ret(FALSE, "no_data"))
    ELSE LET t == timestamps_of(self.processed_data)
             start_mask == {i \in DOMAIN t : t[i] >= start_time}
             end_mask == {i \in DOMAIN t : t[i] <= end_time}
         IN IF start_mask = {} \/ end_mask = {}
            THEN Result(self, Ret(FALSE, "out_of_range"))
            ELSE crop_by_points(self,
                     (CHOOSE i \in start_mask : \A j \in start_mask : i <= j) - 1,
                     (CHOOSE i \in end_mask : \A j \in end_mask : i >= j) - 1)

\* threshold=0.5 mm
ReleaseThreshold == 1

\* the samples a release window spans
ReleaseWindow == 10

\* how far the release point is set back
ReleaseBack == 5

\* find_release_point scanning every window of 10 samples that fits
find_release_point_fitting(distances, threshold) ==
    LET hit == {i \in 0..(Len(distances) - ReleaseWindow) :
                    LET window == SubSeq(distances, i + 1, i + ReleaseWindow)
                    IN SeqMax(window) - SeqMin(window) > threshold}
    IN IF hit = {} THEN 0
       ELSE Max2(0, (CHOOSE i \in hit : \A j \in hit : i <= j) - ReleaseBack)

find_release_point(distances, threshold) ==
    LET hit == {i \in 1..(Len(distances) - ReleaseWindow - 1) :
                    LET window == SubSeq(distances, i + 1, i + ReleaseWindow)
                    IN SeqMax(window) - SeqMin(window) > threshold}
    IN IF hit = {} THEN 0
       ELSE Max2(0, (CHOOSE i \in hit : \A j \in hit : i <= j) - ReleaseBack)

\* the results stored on the session: the period and frequency always, the
\* decrement values unless calculate_logarithmic_decrement returned None
store_results(self, est, dec) ==
    [self EXCEPT !.current_period = est.period,
                 !.current_frequency = est.frequency,
                 !.log_decrement = stored(self.log_decrement, dec.delta),
                 !.damping_ratio = stored(self.damping_ratio, dec.zeta),
                 !.loss_factor = stored(self.loss_factor, dec.eta)]

\* the peaks to estimate from: the corrected ones when there are 2 or more
chosen_peaks(self) ==
    IF ~IsNone(self.corrected_peaks) /\ Len(self.corrected_peaks.val) >= 2
    THEN self.corrected_peaks.val
    ELSE detect_peaks(distances_of(self.processed_data))

estimate_from(self, peaks, est, dec) ==
    IF Len(peaks) < 2
    THEN Result(self, [Ret(FALSE, "few_peaks") EXCEPT !.used = Some(peaks)])
    ELSE Result(store_results(self, est, dec),
                [Ret(TRUE, "ok") EXCEPT !.period = est.period,
                                        !.frequency = est.frequency,
                                        !.peaks = Some(peaks),
                                        !.used = Some(peaks)])

estimate_with(self, peaks) ==
    estimate_from(self, peaks,
                  period_estimate(peaks, timestamps_of(self.processed_data)),
                  calculate_logarithmic_decrement(peaks, distances_of(self.processed_data)))

calculate_period_frequency_improved(self) ==
    IF IsNone(self.processed_data) THEN Result(self, Ret(FALSE, "no_data"))
    ELSE IF ~self.processed_data.hasNorm THEN Result(self, Ret(FALSE, "error"))
    ELSE estimate_with(self, chosen_peaks(self))

\* True is returned whatever the estimate gave
accept(calc) == Result(calc.self, [calc.ret EXCEPT !.ok = TRUE])

estimate_cropped(crop) ==
    IF ~crop.ret.ok THEN Result(crop.self, Ret(FALSE, "crop_failed"))
    ELSE accept(calculate_period_frequency_improved(crop.self))

crop_after(base, start_time, duration_after_start) ==
    estimate_cropped(crop_by_time(base, start_time, start_time + duration_after_start))

crop_from(base, start_idx, duration_after_start) ==
    IF start_idx = 0 THEN Result(base, Ret(FALSE, "release_not_found"))
    ELSE crop_after(base, base.processed_data.rows[start_idx + 1].t, duration_after_start)

crop_from_release(base, duration_after_start) ==
    IF ~base.processed_data.hasNorm THEN Result(base, Ret(FALSE, "error"))
    ELSE crop_from(base,
                   find_release_point(distances_of(base.processed_data), ReleaseThreshold),
                   duration_after_start)

\* auto_crop_oscillations searching and cropping the active series as it is
auto_crop_oscillations_active(self, duration_after_start) ==
    IF IsNone(self.processed_data) THEN Result(self, Ret(FALSE, "no_data"))
    ELSE crop_from_release(self, duration_after_start)

auto_crop_oscillations(self, duration_after_start) ==
    IF IsNone(self.processed_data) THEN Result(self, Ret(FALSE, "no_data"))
    ELSE crop_from_release(reset_to_original(self).self, duration_after_start)

----------------------------------------------------------------------------
(* Manual peak correction and the menu handlers of main() *)

\* the most clicks made in one correction window
MaxClicks == 1

\* the index of the sample nearest in time to x (the first of equal ones)
closest_idx(timestamps, x) ==
    (CHOOSE i \in DOMAIN timestamps :
        \A j \in DOMAIN timestamps :
            \/ Abs(timestamps[i] - x) < Abs(timestamps[j] - x)
            \/ Abs(timestamps[i] - x) = Abs(timestamps[j] - x) /\ i <= j) - 1

\* one mouse click with the left button adding the nearest sample even when
\* it is listed
on_click_listed(corrected, event, timestamps) ==
    IF event.button = 1
    THEN Sorted(Append(corrected, closest_idx(timestamps, event.x)))
    ELSE IF corrected = <<>> THEN corrected
         ELSE LET peak_times == [k \in DOMAIN corrected |-> At(timestamps, corrected[k])]
                  gone == closest_idx(peak_times, event.x) + 1
              IN SelectIdx(corrected, DOMAIN corrected \ {gone}, 1)

\* one mouse click: the left button (1) adds the nearest sample unless it is
\* listed, the right button (3) removes the listed peak nearest to the click
on_click(corrected, event, timestamps) ==
    IF event.button = 1
    THEN IF \E k \in DOMAIN corrected : corrected[k] = closest_idx(timestamps, event.x)
         THEN corrected
         ELSE Sorted(Append(corrected, closest_idx(timestamps, event.x)))
    ELSE IF corrected = <<>> THEN corrected
         ELSE LET peak_times == [k \in DOMAIN corrected |-> At(timestamps, corrected[k])]
                  gone == closest_idx(peak_times, event.x) + 1
              IN SelectIdx(corrected, DOMAIN corrected \ {gone}, 1)

RECURSIVE after_clicks(_, _, _)
after_clicks(corrected, clicks, timestamps) ==
    IF clicks = <<>> THEN corrected
    ELSE after_clicks(on_click(corrected, Head(clicks), timestamps), Tail(clicks), timestamps)

\* manual_peak_correction(current_peaks) with the clicks made before Enter:
\* the sorted list is stored on the session and returned
manual_peak_correction(self, current_peaks, clicks) ==
    IF IsNone(self.processed_data) THEN Result(self, [Ret(FALSE, "no_data") EXCEPT
                                                          !.peaks = Some(current_peaks)])
    ELSE IF \/ ~self.processed_data.hasNorm
            \/ \E k \in DOMAIN current_peaks :
                   current_peaks[k] >= Len(self.processed_data.rows)
         \* the column is missing, or a current peak cannot be drawn: raises
         THEN Result(self, Ret(FALSE, "error"))
    ELSE LET corrected == Sorted(after_clicks(current_peaks, clicks,
                                              timestamps_of(self.processed_data)))
         IN Result([self EXCEPT !.corrected_peaks = Some(corrected)],
                   [Ret(TRUE, "ok") EXCEPT !.peaks = Some(corrected)])

\* the period main() computes itself from the corrected peaks (choice 7)
main_period(corrected, timestamps) == periods_estimate(periods_of(corrected, timestamps))

\* the recomputation of choice 7 from 2 corrected peaks or more
recomputed(self, corrected, used, est, dec) ==
    Result(store_results(self, est, dec),
           [Ret(TRUE, "ok") EXCEPT !.period = est.period,
                                   !.frequency = est.frequency,
                                   !.peaks = Some(corrected),
                                   !.used = used])

after_correction(manual, corrected, used) ==
    IF Len(corrected) >= 2
    THEN recomputed(manual.self, corrected, used,
                    main_period(corrected, timestamps_of(manual.self.processed_data)),
                    calculate_logarithmic_decrement(
                        corrected, distances_of(manual.self.processed_data)))
    ELSE Result(manual.self, [Ret(FALSE, "few_corrected") EXCEPT
                                  !.peaks = Some(corrected),
                                  !.used = used])

corrected_by(manual, used) == after_correction(manual, manual.ret.peaks.val, used)

correction_of(calc, clicks) ==
    IF IsNone(calc.ret.peaks) \/ Len(calc.ret.peaks.val) = 0
    THEN Result(calc.self, [calc.ret EXCEPT !.ok = FALSE, !.why = "no_peaks"])
    ELSE corrected_by(manual_peak_correction(calc.self, calc.ret.peaks.val, clicks),
                      calc.ret.used)

\* choice 7 of the menu: estimate, open the correction window on the peaks
\* found, and recompute from the corrected list when it has 2 peaks or more
main_choice7(self, clicks) ==
    correction_of(calculate_period_frequency_improved(self), clicks)

\* the text save_results writes; a field is None when its line is not written
Report(self, period, frequency, complete) ==
    [none |-> FALSE,
     complete |-> complete,
     start |-> self.oscillation_start,
     end |-> self.oscillation_end,
     points |-> Len(self.processed_data.rows),
     period |-> IF complete /\ ~IsNone(period) /\ ~IsNone(frequency) THEN period ELSE None,
     frequency |-> IF complete /\ ~IsNone(period) /\ ~IsNone(frequency) THEN frequency
                   ELSE None,
     log_decrement |-> IF complete THEN self.log_decrement ELSE None,
     damping_ratio |-> IF complete THEN self.damping_ratio ELSE None,
     loss_factor |-> IF complete THEN self.loss_factor ELSE None,
     corrected_note |-> complete /\ ~IsNone(self.corrected_peaks)]

save_results(self, period, frequency) ==
    IF IsNone(self.processed_data) THEN Result(self, Ret(FALSE, "no_data"))
    ELSE LET save_period == IF ~IsNone(self.current_period) THEN self.current_period
                            ELSE period
             save_frequency == IF ~IsNone(self.current_frequency) THEN self.current_frequency
                               ELSE frequency
         IN \* the start time of an empty table cannot be written
            IF self.processed_data.rows = <<>>
            THEN Result(self, [Ret(FALSE, "error") EXCEPT
                                   !.report = Report(self, save_period, save_frequency, FALSE)])
            ELSE Result(self, [Ret(TRUE, "ok") EXCEPT
                                   !.report = Report(self, save_period, save_frequency, TRUE)])

saved_after(calc, save) ==
    Result(save.self, [save.ret EXCEPT !.peaks = calc.ret.peaks,
                                       !.used = calc.ret.used,
                                       !.period = calc.ret.period,
                                       !.frequency = calc.ret.frequency,
                                       !.why = IF calc.ret.why = "ok" THEN save.ret.why
                                               ELSE calc.ret.why])

save_estimate(calc) ==
    saved_after(calc, save_results(calc.self, calc.ret.period, calc.ret.frequency))

\* choice 10 of the menu: estimate, then save
main_choice10(self) == save_estimate(calculate_period_frequency_improved(self))

----------------------------------------------------------------------------
(* The state machine: the session after construction, and one action per   *)
(* operation a caller can invoke                                           *)

\* the largest point crop_by_points is tried with
MaxPoint == 7

\* the largest time crop_by_time is tried with
MaxTimeArg == 10

\* a point below the table, its second row, and MaxPoint
PointArgs == {-1, 1, MaxPoint}

\* a time before the recording, a time within it, and MaxTimeArg
TimeArgs == {-1, 4, MaxTimeArg}

\* duration_after_start=1.0 s
DefaultDuration == 10

Durations == {DefaultDuration}

\* the times clicked in the correction window
ClickArgs == {2, 3}

\* the peak lists manual_peak_correction is called with directly
CurrentPeaks == {<<>>, <<1>>}

\* the clicks tried: the left button at both times, the right button at the
\* first (it removes the listed peak nearest to the click, and from the lists
\* reached here both times remove the same one)
Events == {e \in [button : {1, 3}, x : ClickArgs] : e.button = 3 => e.x = 2}

ClickSeqs == UNION {[1..k -> Events] : k \in 0..MaxClicks}

\* the fields of the object become those of the object after the call
\* DataRecorder.__init__, and the CSV file stop_recording has not written yet;
\* a data point is kept as its 'Номер_точки'
DataRecorder ==
    [recording |-> FALSE, data_points |-> <<>>, point_counter |-> 0, csv |-> None]

\* MainWindow once the sensor is connected and before any recording: the
\* buttons, current_file, the fields of record_thread (DataRecordThread), the
\* recording_stopped signal waiting in the event queue, the table handed
\* to perform_analysis, the result labels ('-' is None) and the open
\* PeakCorrectionDialog
MainWindow ==
    [is_recording |-> FALSE, start_btn |-> TRUE, stop_btn |-> FALSE,
     analyze_btn |-> FALSE, current_file |-> None, record_thread |-> None,
     recording_stopped |-> FALSE, analysed |-> None,
     result_period |-> None, result_freq |-> None, result_decrement |-> None,
     dialog |-> None]

\* DataRecordThread.__init__
DataRecordThread == [is_recording |-> FALSE, point_counter |-> 0, data_points |-> <<>>]

\* neither recording program runs
Started == [main |-> "off", _record_loop |-> "none", events |-> "off", run |-> "none"]

\* the recording program that is run: rf603_logger.py, whose main() waits for
\* ENTER with no recording thread, or rf603_gui.py, whose event loop is idle
\* with no recording thread
Programs == {[Started EXCEPT !.main = "start"], [Started EXCEPT !.events = "idle"]}

Becomes(name, arguments, result) ==
    \E r \in {result} :
        /\ data' = r.self.data
        /\ processed_data' = r.self.processed_data
        /\ original_processed_data' = r.self.original_processed_data
        /\ oscillation_start' = r.self.oscillation_start
        /\ oscillation_end' = r.self.oscillation_end
        /\ corrected_peaks' = r.self.corrected_peaks
        /\ current_period' = r.self.current_period
        /\ current_frequency' = r.self.current_frequency
        /\ log_decrement' = r.self.log_decrement
        /\ damping_ratio' = r.self.damping_ratio
        /\ loss_factor' = r.self.loss_factor
        /\ op' = name
        /\ args' = arguments
        /\ ret' = r.ret
        /\ UNCHANGED <<directory, recorder, main_window, pc, analyzer>>

Init ==
    /\ data = __init__.data
    /\ processed_data = __init__.processed_data
    /\ original_processed_data = __init__.original_processed_data
    /\ oscillation_start = __init__.oscillation_start
    /\ oscillation_end = __init__.oscillation_end
    /\ corrected_peaks = __init__.corrected_peaks
    /\ current_period = __init__.current_period
    /\ current_frequency = __init__.current_frequency
    /\ log_decrement = __init__.log_decrement
    /\ damping_ratio = __init__.damping_ratio
    /\ loss_factor = __init__.loss_factor
    /\ directory \in Directories
    /\ op = "__init__"
    /\ args = <<>>
    /\ ret = Ret(TRUE, "ok")
    /\ norm_src = <<>>
    /\ recorder = DataRecorder
    /\ main_window = MainWindow
    /\ pc = Started
    /\ analyzer = None

\* the names load_csv is called with in a directory: every file in it and one
\* that is not there
Tried(files) == files \cup {CHOOSE filename \in FileNames : filename \notin files}

LoadCsv ==
    \E filename \in Tried(directory) :
        /\ Becomes("load_csv", <<filename>>, load_csv(Self, filename))
        /\ UNCHANGED norm_src

Normalize ==
    /\ Becomes("normalize_data", <<>>, normalize_data(Self))
    /\ norm_src' = IF normalize_data(Self).ret.ok THEN data.rows ELSE norm_src

ResetToOriginal ==
    /\ Becomes("reset_to_original", <<>>, reset_to_original(Self))
    /\ UNCHANGED norm_src

CropByTime ==
    \E start_time \in TimeArgs, end_time \in TimeArgs :
        /\ Becomes("crop_by_time", <<start_time, end_time>>,
                   crop_by_time(Self, start_time, end_time))
        /\ UNCHANGED norm_src

CropByPoints ==
    \E start_point \in PointArgs, end_point \in PointArgs :
        /\ Becomes("crop_by_points", <<start_point, end_point>>,
                   crop_by_points(Self, start_point, end_point))
        /\ UNCHANGED norm_src

AutoCrop ==
    \E duration \in Durations :
        /\ Becomes("auto_crop_oscillations", <<duration>>,
                   auto_crop_oscillations(Self, duration))
        /\ UNCHANGED norm_src

Calculate ==
    /\ Becomes("calculate_period_frequency_improved", <<>>,
               calculate_period_frequency_improved(Self))
    /\ UNCHANGED norm_src

ManualPeakCorrection ==
    \E current_peaks \in CurrentPeaks, clicks \in ClickSeqs :
        /\ Becomes("manual_peak_correction", <<current_peaks>>,
                   manual_peak_correction(Self, current_peaks, clicks))
        /\ UNCHANGED norm_src

MainChoice7 ==
    /\ ~IsNone(processed_data)
    /\ \E calc \in {calculate_period_frequency_improved(Self)}, clicks \in ClickSeqs :
           \* main_choice7(Self, clicks), with the estimate taken once
           Becomes("main_choice7", <<>>, correction_of(calc, clicks))
    /\ UNCHANGED norm_src

MainChoice10 ==
    /\ Becomes("main_choice10", <<>>, main_choice10(Self))
    /\ UNCHANGED norm_src

\* the operations of the class, called in any order
Next ==
    \/ LoadCsv
    \/ Normalize
    \/ ResetToOriginal
    \/ CropByTime
    \/ CropByPoints
    \/ AutoCrop
    \/ Calculate
    \/ ManualPeakCorrection

Spec == Init /\ [][Next]_vars

\* the operations with the handlers of choices 7 and 10 of the menu of main(),
\* which reach manual_peak_correction and save_results
MainNext ==
    \/ LoadCsv
    \/ Normalize
    \/ ResetToOriginal
    \/ CropByTime
    \/ CropByPoints
    \/ AutoCrop
    \/ Calculate
    \/ MainChoice7
    \/ MainChoice10

SpecMain == Init /\ [][MainNext]_vars

----------------------------------------------------------------------------
(* The two numeric steps on their own: the period estimate of              *)
(* calculate_period_frequency_improved and the method                      *)
(* calculate_logarithmic_decrement, applied to every list of peak indices  *)
(* of a loaded and normalized recording                                    *)

\* the session after load_csv and normalize_data of a table
session_of(rows) == normalize_data([__init__ EXCEPT !.data = Frame(rows, FALSE)]).self

\* calculate_logarithmic_decrement(peaks) as a call on the session
decrement_call(self, dec, peaks) ==
    Result([self EXCEPT !.log_decrement = stored(self.log_decrement, dec.delta),
                        !.damping_ratio = stored(self.damping_ratio, dec.zeta),
                        !.loss_factor = stored(self.loss_factor, dec.eta)],
           [Ret(~IsNone(dec.delta), IF IsNone(dec.delta) THEN "none" ELSE "ok") EXCEPT
                !.used = Some(peaks), !.decrement = Some(dec)])

\* the period estimate as a returned value
estimate_call(est, peaks) ==
    [Ret(~IsNone(est.period), IF IsNone(est.period) THEN "few_peaks" ELSE "ok") EXCEPT
         !.used = Some(peaks), !.period = est.period, !.frequency = est.frequency]

UnitInit ==
    \E filename \in {"step", "swing"} :
        /\ data = session_of(FileRows(filename)).data
        /\ processed_data = session_of(FileRows(filename)).processed_data
        /\ original_processed_data = session_of(FileRows(filename)).original_processed_data
        /\ oscillation_start = __init__.oscillation_start
        /\ oscillation_end = __init__.oscillation_end
        /\ corrected_peaks = __init__.corrected_peaks
        /\ current_period = __init__.current_period
        /\ current_frequency = __init__.current_frequency
        /\ log_decrement = __init__.log_decrement
        /\ damping_ratio = __init__.damping_ratio
        /\ loss_factor = __init__.loss_factor
        /\ directory = {filename}
        /\ op = "normalize_data"
        /\ args = <<>>
        /\ ret = Ret(TRUE, "ok")
        /\ norm_src = FileRows(filename)
        /\ recorder = DataRecorder
        /\ main_window = MainWindow
        /\ pc = Started
        /\ analyzer = None

PeriodEstimate ==
    \E peaks \in PeakLists(Len(processed_data.rows)) :
        /\ op' = "period_estimate"
        /\ args' = <<peaks>>
        /\ ret' = estimate_call(period_estimate(peaks, timestamps_of(processed_data)), peaks)
        /\ UNCHANGED <<data, processed_data, original_processed_data, oscillation_start,
                       oscillation_end, corrected_peaks, current_period,
                       current_frequency, log_decrement, damping_ratio, loss_factor,
                       directory, norm_src, recorder, main_window, pc, analyzer>>

LogarithmicDecrement ==
    \E peaks \in PeakLists(Len(processed_data.rows)) :
        /\ Becomes("calculate_logarithmic_decrement", <<peaks>>,
                   decrement_call(Self,
                       calculate_logarithmic_decrement(peaks, distances_of(processed_data)),
                       peaks))
        /\ UNCHANGED norm_src

UnitNext ==
    \/ PeriodEstimate
    \/ LogarithmicDecrement

SpecUnit == UnitInit /\ [][UnitNext]_vars

----------------------------------------------------------------------------
(* Recording: DataRecorder and main() of rf603_logger.py, DataRecordThread  *)
(* and the handlers of MainWindow in rf603_gui.py                           *)

\* the analysis session and the analyzer, which a recording leaves alone
analysis ==
    <<data, processed_data, original_processed_data, oscillation_start,
      oscillation_end, corrected_peaks, current_period, current_frequency,
      log_decrement, damping_ratio, loss_factor, directory, op, args, ret,
      norm_src, analyzer>>

\* the points a recording is followed for
MaxPoints == 2

\* the recording thread can still append a point: it is about to enter its
\* loop, or has passed the test of the loop, or is at the test with the flag
\* of the loop set
appending(thread, flag) ==
    \/ thread \in {"started", "read", "append"}
    \/ thread = "while" /\ flag

\* pd.DataFrame(data_points) written with to_csv, and whether the recording
\* thread could still append when the list was read
Table(data_points, live) == [rows |-> data_points, live |-> live]

\* DataRecorder.start_recording, called by main() after the first ENTER
StartRecording ==
    /\ pc.main = "start"
    /\ recorder' = [recorder EXCEPT !.data_points = <<>>,
                                    !.recording = TRUE,
                                    !.point_counter = 0]
    /\ pc' = [pc EXCEPT !.main = "recording", !._record_loop = "while"]
    /\ UNCHANGED <<analysis, main_window>>

\* _record_loop: while self.recording
RecordLoopWhile ==
    /\ pc._record_loop = "while"
    /\ pc' = [pc EXCEPT !._record_loop = IF recorder.recording THEN "read" ELSE "returned"]
    /\ UNCHANGED <<analysis, recorder, main_window>>

\* _record_loop: read_stream_data gives a distance or None; after None the
\* loop sleeps and tests again
RecordLoopRead ==
    /\ pc._record_loop = "read"
    /\ \E distance \in {"mm", "None"} :
           /\ distance = "mm" => recorder.point_counter < MaxPoints
           /\ pc' = [pc EXCEPT !._record_loop = IF distance = "mm" THEN "append"
                                                ELSE "while"]
    /\ UNCHANGED <<analysis, recorder, main_window>>

\* _record_loop: the point is appended and counted, then the loop sleeps
RecordLoopAppend ==
    /\ pc._record_loop = "append"
    /\ recorder' = [recorder EXCEPT !.data_points = Append(@, recorder.point_counter),
                                    !.point_counter = @ + 1]
    /\ pc' = [pc EXCEPT !._record_loop = "while"]
    /\ UNCHANGED <<analysis, main_window>>

\* DataRecorder.stop_recording, called by main() after the second ENTER, up to
\* the join
StopRecording ==
    /\ pc.main = "recording"
    /\ recorder.recording
    /\ recorder' = [recorder EXCEPT !.recording = FALSE]
    /\ pc' = [pc EXCEPT !.main = "join"]
    /\ UNCHANGED <<analysis, main_window>>

\* record_thread.join(timeout=2) returns because the thread has ended
JoinEnded ==
    /\ pc.main = "join"
    /\ pc._record_loop = "returned"
    /\ pc' = [pc EXCEPT !.main = "to_csv"]
    /\ UNCHANGED <<analysis, recorder, main_window>>

\* record_thread.join(timeout=2) returns because 2 s have passed
JoinTimeout ==
    /\ pc.main = "join"
    /\ pc._record_loop # "returned"
    /\ pc' = [pc EXCEPT !.main = "to_csv"]
    /\ UNCHANGED <<analysis, recorder, main_window>>

\* stop_recording after the join: the CSV is written when there are points,
\* and main() goes on to the analysis of the file or ends
ToCsv ==
    /\ pc.main = "to_csv"
    /\ recorder' = IF recorder.data_points # <<>>
                   THEN [recorder EXCEPT
                             !.csv = Some(Table(recorder.data_points,
                                               appending(pc._record_loop,
                                                         recorder.recording)))]
                   ELSE recorder
    /\ pc' = [pc EXCEPT !.main = IF recorder.data_points # <<>> THEN "analysis"
                                 ELSE "return"]
    /\ UNCHANGED <<analysis, main_window>>

\* MainWindow.start_recording: a new DataRecordThread is started
WindowStartRecording ==
    /\ pc.events = "idle"
    /\ main_window.start_btn
    /\ main_window' = [main_window EXCEPT !.record_thread = Some(DataRecordThread),
                                          !.is_recording = TRUE,
                                          !.start_btn = FALSE,
                                          !.stop_btn = TRUE,
                                          !.analyze_btn = FALSE]
    /\ pc' = [pc EXCEPT !.run = "started"]
    /\ UNCHANGED <<analysis, recorder>>

\* DataRecordThread.run up to the loop
Run ==
    /\ pc.run = "started"
    /\ main_window' = [main_window EXCEPT !.record_thread.val.is_recording = TRUE,
                                          !.record_thread.val.point_counter = 0]
    /\ pc' = [pc EXCEPT !.run = "while"]
    /\ UNCHANGED <<analysis, recorder>>

\* run: while self.is_recording
RunWhile ==
    /\ pc.run = "while"
    /\ pc' = [pc EXCEPT !.run = IF main_window.record_thread.val.is_recording
                                THEN "read" ELSE "stopping"]
    /\ UNCHANGED <<analysis, recorder, main_window>>

\* run: read_stream_data gives a distance or None; after None the loop sleeps
\* and tests again
RunRead ==
    /\ pc.run = "read"
    /\ \E distance \in {"mm", "None"} :
           /\ distance = "mm" => main_window.record_thread.val.point_counter < MaxPoints
           /\ pc' = [pc EXCEPT !.run = IF distance = "mm" THEN "append" ELSE "while"]
    /\ UNCHANGED <<analysis, recorder, main_window>>

\* run: the point is appended and counted, then the loop sleeps
RunAppend ==
    /\ pc.run = "append"
    /\ main_window' =
           [main_window EXCEPT
                !.record_thread.val.data_points =
                    Append(@, main_window.record_thread.val.point_counter),
                !.record_thread.val.point_counter = @ + 1]
    /\ pc' = [pc EXCEPT !.run = "while"]
    /\ UNCHANGED <<analysis, recorder>>

\* run after the loop: recording_stopped is emitted and the thread ends
RunStopped ==
    /\ pc.run = "stopping"
    /\ main_window' = [main_window EXCEPT !.recording_stopped = TRUE]
    /\ pc' = [pc EXCEPT !.run = "finished"]
    /\ UNCHANGED <<analysis, recorder>>

\* MainWindow.stop_recording: DataRecordThread.stop up to the wait
WindowStopRecording ==
    /\ pc.events = "idle"
    /\ main_window.stop_btn
    /\ ~IsNone(main_window.record_thread)
    /\ main_window' = [main_window EXCEPT !.record_thread.val.is_recording = FALSE]
    /\ pc' = [pc EXCEPT !.events = "wait"]
    /\ UNCHANGED <<analysis, recorder>>

\* DataRecordThread.stop: self.wait() returns once run has ended
Wait ==
    /\ pc.events = "wait"
    /\ pc.run = "finished"
    /\ pc' = [pc EXCEPT !.events = "idle"]
    /\ UNCHANGED <<analysis, recorder, main_window>>

\* MainWindow.save_current_data
save_current_data(self, thread) ==
    IF IsNone(self.record_thread) \/ self.record_thread.val.data_points = <<>>
    THEN self
    ELSE [self EXCEPT !.current_file =
                          Some(Table(self.record_thread.val.data_points,
                                     appending(thread,
                                               self.record_thread.val.is_recording)))]

\* MainWindow.on_recording_stopped, with the auto-save box checked or not
OnRecordingStopped ==
    /\ pc.events = "idle"
    /\ main_window.recording_stopped
    /\ \E auto_save_check \in BOOLEAN :
           main_window' =
               IF auto_save_check
               THEN save_current_data(
                        [main_window EXCEPT !.recording_stopped = FALSE,
                                            !.is_recording = FALSE,
                                            !.start_btn = TRUE,
                                            !.stop_btn = FALSE,
                                            !.analyze_btn = TRUE],
                        pc.run)
               ELSE [main_window EXCEPT !.recording_stopped = FALSE,
                                        !.is_recording = FALSE,
                                        !.start_btn = TRUE,
                                        !.stop_btn = FALSE,
                                        !.analyze_btn = TRUE]
    /\ UNCHANGED <<analysis, recorder, pc>>

\* the menu entry Ctrl+S
SaveCurrentData ==
    /\ pc.events = "idle"
    /\ main_window' = save_current_data(main_window, pc.run)
    /\ UNCHANGED <<analysis, recorder, pc>>

\* MainWindow.analyze_data: the table perform_analysis is given
analyze_data(self, thread) ==
    IF ~IsNone(self.current_file)
    THEN [self EXCEPT !.analysed = self.current_file]
    ELSE IF ~IsNone(self.record_thread) /\ self.record_thread.val.data_points # <<>>
         THEN [self EXCEPT !.analysed =
                               Some(Table(self.record_thread.val.data_points,
                                          appending(thread,
                                                    self.record_thread.val.is_recording)))]
         ELSE self

\* the button 'Анализировать текущие данные'
AnalyzeData ==
    /\ pc.events = "idle"
    /\ main_window.analyze_btn
    /\ main_window' = analyze_data(main_window, pc.run)
    /\ UNCHANGED <<analysis, recorder, pc>>

RecordNext ==
    \/ StartRecording
    \/ RecordLoopWhile
    \/ RecordLoopRead
    \/ RecordLoopAppend
    \/ StopRecording
    \/ JoinEnded
    \/ JoinTimeout
    \/ ToCsv
    \/ WindowStartRecording
    \/ Run
    \/ RunWhile
    \/ RunRead
    \/ RunAppend
    \/ RunStopped
    \/ WindowStopRecording
    \/ Wait
    \/ OnRecordingStopped
    \/ SaveCurrentData
    \/ AnalyzeData

\* a recording program is started in a directory with no CSV file
RecordInit ==
    /\ data = __init__.data
    /\ processed_data = __init__.processed_data
    /\ original_processed_data = __init__.original_processed_data
    /\ oscillation_start = __init__.oscillation_start
    /\ oscillation_end = __init__.oscillation_end
    /\ corrected_peaks = __init__.corrected_peaks
    /\ current_period = __init__.current_period
    /\ current_frequency = __init__.current_frequency
    /\ log_decrement = __init__.log_decrement
    /\ damping_ratio = __init__.damping_ratio
    /\ loss_factor = __init__.loss_factor
    /\ directory = {}
    /\ op = "__init__"
    /\ args = <<>>
    /\ ret = Ret(TRUE, "ok")
    /\ norm_src = <<>>
    /\ recorder = DataRecorder
    /\ main_window = MainWindow
    /\ pc \in Programs
    /\ analyzer = None

SpecRecord == RecordInit /\ [][RecordNext]_vars

----------------------------------------------------------------------------
(* Detection: _find_peaks_adaptive and find_release_point on a family of    *)
(* recordings                                                               *)

\* the samples of the recordings peaks are searched in
SignalLen == 11

\* the samples of the longest recording a release is searched in
MaxSeries == 17

\* a recording sampled every 0.1 s that is at 100 mm where the level is 0 and
\* at 104 mm where it is 1
Recording(levels) == [i \in 1..Len(levels) |-> Row(i - 1, 200 + 8 * levels[i])]

\* every recording of SignalLen samples, and the recording of one sample
PeakRecordings ==
    {Recording(levels) : levels \in [1..SignalLen -> {0, 1}]} \cup {Recording(<<0>>)}

\* the recordings of ReleaseWindow + 1 .. MaxSeries samples that leave the
\* level 0 at two samples at most
ReleaseRecordings ==
    UNION {{Recording([i \in 1..n |-> IF i \in {a, b} THEN 1 ELSE 0]) :
                a \in 0..n, b \in 0..n} :
           n \in (ReleaseWindow + 1)..MaxSeries}

\* a session that has loaded and normalized one of the recordings
DetectInit ==
    \E rows \in PeakRecordings \cup ReleaseRecordings :
        /\ data = session_of(rows).data
        /\ processed_data = session_of(rows).processed_data
        /\ original_processed_data = session_of(rows).original_processed_data
        /\ oscillation_start = __init__.oscillation_start
        /\ oscillation_end = __init__.oscillation_end
        /\ corrected_peaks = __init__.corrected_peaks
        /\ current_period = __init__.current_period
        /\ current_frequency = __init__.current_frequency
        /\ log_decrement = __init__.log_decrement
        /\ damping_ratio = __init__.damping_ratio
        /\ loss_factor = __init__.loss_factor
        /\ directory = {}
        /\ op = "normalize_data"
        /\ args = <<>>
        /\ ret = Ret(TRUE, "ok")
        /\ norm_src = rows
        /\ recorder = DataRecorder
        /\ main_window = MainWindow
        /\ pc = Started
        /\ analyzer = None

\* _find_peaks_adaptive on the normalized distances, with the amplitude its
\* caller passes
FindPeaksAdaptive ==
    /\ op' = "_find_peaks_adaptive"
    /\ args' = <<>>
    /\ ret' = Some(smoothed_peaks(distances_of(processed_data)))
    /\ UNCHANGED <<data, processed_data, original_processed_data, oscillation_start,
                   oscillation_end, corrected_peaks, current_period,
                   current_frequency, log_decrement, damping_ratio, loss_factor,
                   directory, norm_src, recorder, main_window, pc, analyzer>>

\* the index find_release_point returns
ReleasePoint(release_point) == [none |-> FALSE, release_point |-> release_point]

\* find_release_point(threshold=0.5)
FindReleasePoint ==
    /\ op' = "find_release_point"
    /\ args' = <<ReleaseThreshold>>
    /\ ret' = ReleasePoint(find_release_point(distances_of(processed_data),
                                           ReleaseThreshold))
    /\ UNCHANGED <<data, processed_data, original_processed_data, oscillation_start,
                   oscillation_end, corrected_peaks, current_period,
                   current_frequency, log_decrement, damping_ratio, loss_factor,
                   directory, norm_src, recorder, main_window, pc, analyzer>>

DetectNext ==
    \/ FindPeaksAdaptive
    \/ FindReleasePoint

SpecDetect == DetectInit /\ [][DetectNext]_vars

----------------------------------------------------------------------------
(* The automatic crop on its own, on every recording a release is searched *)
(* in                                                                       *)

\* the starts i of the windows distances[i:i+10] find_release_point scans in
\* which the distance varies by more than the threshold
scanned_hits(distances, threshold) ==
    {i \in 1..(Len(distances) - ReleaseWindow - 1) :
         LET window == SubSeq(distances, i + 1, i + ReleaseWindow)
         IN SeqMax(window) - SeqMin(window) > threshold}

SpecCrop == DetectInit /\ [][AutoCrop]_vars

----------------------------------------------------------------------------
(* RF603OscillationAnalyzer of rf603_logger.py, and the analysis handlers  *)
(* of MainWindow in rf603_gui.py, which hold one in self.analyzer           *)

\* the fields of the session of dekrement.py
session ==
    <<data, processed_data, original_processed_data, oscillation_start,
      oscillation_end, corrected_peaks, current_period, current_frequency,
      log_decrement, damping_ratio, loss_factor>>

\* load_csv of rf603_logger.py: the table is stored and counted
logger_load_csv(self, filename) ==
    IF filename \notin directory THEN Result(self, Ret(FALSE, "read_error"))
    ELSE Result([self EXCEPT !.data = Frame(FileRows(filename), FALSE)], Ret(TRUE, "ok"))

\* normalize_data of rf603_logger.py: the results are left as they are
logger_normalize_data(self) ==
    IF IsNone(self.data) THEN Result(self, Ret(FALSE, "no_data"))
    ELSE IF self.data.rows = <<>>
         THEN Result([self EXCEPT !.processed_data = self.data], Ret(FALSE, "error"))
         ELSE Result([self EXCEPT
                          !.processed_data = Frame(normalized(self.data.rows), TRUE),
                          !.original_processed_data =
                              Frame(normalized(self.data.rows), TRUE)],
                     Ret(TRUE, "ok"))

\* find_peaks(distances_smooth, height=amplitude * 0.1,
\*            distance=max(3, len(distances_smooth) // 20),
\*            prominence=amplitude * 0.05)
logger_find_peaks(distances_smooth) ==
    find_peaks(distances_smooth, SeqMax(distances_smooth) - SeqMin(distances_smooth),
               10, Max2(3, Len(distances_smooth) \div 20), 20, 0)

\* the peaks calculate_period_frequency_improved of rf603_logger.py finds
logger_detect_peaks(distances) ==
    logger_find_peaks(IF Len(distances) > SavgolWindow THEN savgol_filter(distances)
                      ELSE distances)

\* calculate_period_frequency_improved of rf603_logger.py; np.max of no
\* sample raises
logger_calculate_period_frequency_improved(self) ==
    IF IsNone(self.processed_data) THEN Result(self, Ret(FALSE, "no_data"))
    ELSE IF ~self.processed_data.hasNorm \/ self.processed_data.rows = <<>>
         THEN Result(self, Ret(FALSE, "error"))
    ELSE estimate_with(self, logger_detect_peaks(distances_of(self.processed_data)))

\* the rows from the first with timestamp >= start_time through the last
\* with timestamp <= end_time, cut out of the active series
logger_crop(self, start_mask, end_mask) ==
    IF start_mask = {} \/ end_mask = {} THEN Result(self, Ret(FALSE, "out_of_range"))
    ELSE LET start_idx == (CHOOSE i \in start_mask : \A j \in start_mask : i <= j) - 1
             end_idx == (CHOOSE i \in end_mask : \A j \in end_mask : i >= j) - 1
         IN accept(logger_calculate_period_frequency_improved(
                [self EXCEPT
                     !.processed_data.rows =
                         IF start_idx > end_idx THEN <<>>
                         ELSE slice(self.processed_data.rows, start_idx, end_idx),
                     !.oscillation_start = start_idx,
                     !.oscillation_end = end_idx]))

logger_crop_after(self, start_time, end_time) ==
    logger_crop(self,
                {i \in DOMAIN self.processed_data.rows :
                     self.processed_data.rows[i].t >= start_time},
                {i \in DOMAIN self.processed_data.rows :
                     self.processed_data.rows[i].t <= end_time})

logger_crop_from(self, start_idx, duration_after_start) ==
    IF start_idx = 0 THEN Result(self, Ret(FALSE, "release_not_found"))
    ELSE logger_crop_after(self, self.processed_data.rows[start_idx + 1].t,
                           self.processed_data.rows[start_idx + 1].t + duration_after_start)

\* auto_crop_oscillations of rf603_logger.py
logger_auto_crop_oscillations(self, duration_after_start) ==
    IF IsNone(self.processed_data) THEN Result(self, Ret(FALSE, "no_data"))
    ELSE IF ~self.processed_data.hasNorm THEN Result(self, Ret(FALSE, "error"))
    ELSE logger_crop_from(self,
             find_release_point(distances_of(self.processed_data), ReleaseThreshold),
             duration_after_start)

\* the same operation has been called on the session of dekrement.py and on the
\* analyzer of rf603_logger.py
Twinned(name, arguments, result, twin) ==
    \E r \in {result} :
        /\ data' = r.self.data
        /\ processed_data' = r.self.processed_data
        /\ original_processed_data' = r.self.original_processed_data
        /\ oscillation_start' = r.self.oscillation_start
        /\ oscillation_end' = r.self.oscillation_end
        /\ corrected_peaks' = r.self.corrected_peaks
        /\ current_period' = r.self.current_period
        /\ current_frequency' = r.self.current_frequency
        /\ log_decrement' = r.self.log_decrement
        /\ damping_ratio' = r.self.damping_ratio
        /\ loss_factor' = r.self.loss_factor
        /\ op' = name
        /\ args' = arguments
        /\ ret' = r.ret
        /\ analyzer' = Some(twin.self)
        /\ UNCHANGED <<directory, norm_src, recorder, main_window, pc>>

\* the two peak detectors gave the same output wherever both estimated
same_peaks(result, twin) ==
    (~IsNone(result.ret.used) /\ ~IsNone(twin.ret.used)) => result.ret.used = twin.ret.used

TwinLoadCsv ==
    \E filename \in FileNames :
        Twinned("load_csv", <<filename>>, load_csv(Self, filename),
                logger_load_csv(analyzer.val, filename))

TwinNormalize ==
    Twinned("normalize_data", <<>>, normalize_data(Self),
            logger_normalize_data(analyzer.val))

TwinAutoCrop ==
    \E duration \in Durations :
        /\ same_peaks(auto_crop_oscillations(Self, duration),
                      logger_auto_crop_oscillations(analyzer.val, duration))
        /\ Twinned("auto_crop_oscillations", <<duration>>,
                   auto_crop_oscillations(Self, duration),
                   logger_auto_crop_oscillations(analyzer.val, duration))

TwinCalculate ==
    /\ same_peaks(calculate_period_frequency_improved(Self),
                  logger_calculate_period_frequency_improved(analyzer.val))
    /\ Twinned("calculate_period_frequency_improved", <<>>,
               calculate_period_frequency_improved(Self),
               logger_calculate_period_frequency_improved(analyzer.val))

\* the operations both classes provide, called on both objects
TwinNext ==
    \/ TwinLoadCsv
    \/ TwinNormalize
    \/ TwinAutoCrop
    \/ TwinCalculate

\* the directories the two classes are compared in
TwinDirectories == {{"decay", "step"}, {"release", "swing"}, {"empty", "unordered"}}

\* one object of each class after construction
TwinInit ==
    /\ data = __init__.data
    /\ processed_data = __init__.processed_data
    /\ original_processed_data = __init__.original_processed_data
    /\ oscillation_start = __init__.oscillation_start
    /\ oscillation_end = __init__.oscillation_end
    /\ corrected_peaks = __init__.corrected_peaks
    /\ current_period = __init__.current_period
    /\ current_frequency = __init__.current_frequency
    /\ log_decrement = __init__.log_decrement
    /\ damping_ratio = __init__.damping_ratio
    /\ loss_factor = __init__.loss_factor
    /\ directory \in TwinDirectories
    /\ op = "__init__"
    /\ args = <<>>
    /\ ret = Ret(TRUE, "ok")
    /\ norm_src = <<>>
    /\ recorder = DataRecorder
    /\ main_window = MainWindow
    /\ pc = Started
    /\ analyzer = Some(__init__)

SpecTwin == TwinInit /\ [][TwinNext]_vars

\* PeakCorrectionDialog.__init__: the list edited, and whether it is a Python
\* list (the peaks found are a numpy array, which has no append and no del)
PeakCorrectionDialog(peaks, list) ==
    [none |-> FALSE, corrected_peaks |-> peaks, list |-> list]

\* MainWindow.perform_analysis on a new analyzer: the window and the analyzer
\* after it
analysis_shown(self, crop) ==
    [window |-> [self EXCEPT !.result_period = crop.ret.period,
                             !.result_freq = crop.ret.frequency,
                             !.result_decrement = crop.self.log_decrement],
     analyzer |-> crop.self]

analysis_normalized(self, norm) ==
    IF ~norm.ret.ok THEN [window |-> self, analyzer |-> norm.self]
    ELSE analysis_shown(self, logger_auto_crop_oscillations(norm.self, DefaultDuration))

analysis_loaded(self, load) ==
    IF ~load.ret.ok THEN [window |-> self, analyzer |-> load.self]
    ELSE analysis_normalized(self, logger_normalize_data(load.self))

perform_analysis(self, filename) ==
    analysis_loaded(self, logger_load_csv(__init__, filename))

\* 'open file for analysis' with a file chosen
PerformAnalysis ==
    /\ pc.events = "idle"
    /\ IsNone(main_window.dialog)
    /\ \E filename \in FileNames :
           /\ main_window' = perform_analysis(main_window, filename).window
           /\ analyzer' = Some(perform_analysis(main_window, filename).analyzer)
           /\ op' = "perform_analysis"
           /\ args' = <<filename>>
           /\ ret' = Ret(TRUE, "ok")
    /\ UNCHANGED <<session, directory, norm_src, recorder, pc>>

\* manual_correct_peaks up to dialog.exec_(): the peaks found are estimated
\* from, and with none found the user is asked whether to enter them by hand
opened(self, calc, reply) ==
    IF IsNone(calc.ret.peaks) \/ Len(calc.ret.peaks.val) = 0
    THEN IF reply THEN [self EXCEPT !.dialog = PeakCorrectionDialog(<<>>, TRUE)]
         ELSE self
    ELSE [self EXCEPT !.dialog = PeakCorrectionDialog(calc.ret.peaks.val, FALSE)]

\* the button 'manual peak correction' on an analyzer with a series to plot
ManualCorrectPeaks ==
    /\ pc.events = "idle"
    /\ IsNone(main_window.dialog)
    /\ ~IsNone(analyzer)
    /\ ~IsNone(analyzer.val.processed_data)
    /\ analyzer.val.processed_data.rows # <<>>
    /\ \E reply \in BOOLEAN :
           main_window' =
               opened(main_window,
                      logger_calculate_period_frequency_improved(analyzer.val), reply)
    /\ analyzer' = Some(logger_calculate_period_frequency_improved(analyzer.val).self)
    /\ op' = "calculate_period_frequency_improved"
    /\ args' = <<>>
    /\ ret' = logger_calculate_period_frequency_improved(analyzer.val).ret
    /\ UNCHANGED <<session, directory, norm_src, recorder, pc>>

\* PeakCorrectionDialog.add_peak with a point entered: a list takes a point it
\* does not hold and is sorted; on an array append raises
add_peak(self, peak_idx) ==
    IF self.list /\ \A k \in DOMAIN self.corrected_peaks : self.corrected_peaks[k] # peak_idx
    THEN [self EXCEPT !.corrected_peaks = Sorted(Append(@, peak_idx))]
    ELSE self

\* the most peaks entered in one dialog
MaxPeaks == 5

AddPeak ==
    /\ ~IsNone(main_window.dialog)
    /\ Len(main_window.dialog.corrected_peaks) < MaxPeaks
    /\ \E peak_idx \in 0..(Len(analyzer.val.processed_data.rows) - 1) :
           main_window' = [main_window EXCEPT !.dialog = add_peak(@, peak_idx)]
    /\ op' = "add_peak"
    /\ args' = <<>>
    /\ ret' = Ret(TRUE, "ok")
    /\ UNCHANGED <<session, directory, norm_src, recorder, pc, analyzer>>

\* PeakCorrectionDialog.remove_peak with a row of the table selected: del
\* raises on an array
remove_peak(self, current_row) ==
    IF self.list
    THEN [self EXCEPT !.corrected_peaks = SelectIdx(@, DOMAIN @ \ {current_row + 1}, 1)]
    ELSE self

RemovePeak ==
    /\ ~IsNone(main_window.dialog)
    /\ \E current_row \in 0..(Len(main_window.dialog.corrected_peaks) - 1) :
           main_window' = [main_window EXCEPT !.dialog = remove_peak(@, current_row)]
    /\ op' = "remove_peak"
    /\ args' = <<>>
    /\ ret' = Ret(TRUE, "ok")
    /\ UNCHANGED <<session, directory, norm_src, recorder, pc, analyzer>>

\* manual_correct_peaks after the dialog was accepted with 2 peaks or more:
\* the labels show the mean of the periods between them and, unless it is
\* None or 0, the decrement the analyzer holds
corrected_shown(self, est, dec) ==
    [self EXCEPT !.dialog = None,
                 !.result_period = est.period,
                 !.result_freq = est.frequency,
                 !.result_decrement = IF IsNone(dec.self.log_decrement)
                                         \/ (/\ dec.self.log_decrement.kind = "fin"
                                             /\ dec.self.log_decrement.v = 0)
                                      THEN @
                                      ELSE dec.self.log_decrement]

\* what manual_correct_peaks has computed from the accepted list
corrected_ret(accepted, est) ==
    IF Len(accepted) >= 2
    THEN [Ret(TRUE, "ok") EXCEPT !.peaks = Some(accepted),
                                 !.used = Some(accepted),
                                 !.period = est.period,
                                 !.frequency = est.frequency]
    ELSE [Ret(FALSE, "few_corrected") EXCEPT !.peaks = Some(accepted)]

\* the dialog is closed with OK
DialogAccepted ==
    /\ ~IsNone(main_window.dialog)
    /\ main_window' =
           IF Len(main_window.dialog.corrected_peaks) >= 2
           THEN corrected_shown(main_window,
                    mean_period(periods_of(main_window.dialog.corrected_peaks,
                                           timestamps_of(analyzer.val.processed_data))),
                    decrement_call(analyzer.val,
                        calculate_logarithmic_decrement(
                            main_window.dialog.corrected_peaks,
                            distances_of(analyzer.val.processed_data)),
                        main_window.dialog.corrected_peaks))
           ELSE [main_window EXCEPT !.dialog = None]
    /\ analyzer' =
           IF Len(main_window.dialog.corrected_peaks) >= 2
           THEN Some(decrement_call(analyzer.val,
                         calculate_logarithmic_decrement(
                             main_window.dialog.corrected_peaks,
                             distances_of(analyzer.val.processed_data)),
                         main_window.dialog.corrected_peaks).self)
           ELSE analyzer
    /\ op' = "manual_correct_peaks"
    /\ args' = <<>>
    /\ ret' = corrected_ret(main_window.dialog.corrected_peaks,
                            mean_period(periods_of(main_window.dialog.corrected_peaks,
                                timestamps_of(analyzer.val.processed_data))))
    /\ UNCHANGED <<session, directory, norm_src, recorder, pc>>

\* the dialog is closed with Cancel
DialogRejected ==
    /\ ~IsNone(main_window.dialog)
    /\ main_window' = [main_window EXCEPT !.dialog = None]
    /\ op' = "manual_correct_peaks"
    /\ args' = <<>>
    /\ ret' = Ret(FALSE, "rejected")
    /\ UNCHANGED <<session, directory, norm_src, recorder, pc, analyzer>>

WindowNext ==
    \/ PerformAnalysis
    \/ ManualCorrectPeaks
    \/ AddPeak
    \/ RemovePeak
    \/ DialogAccepted
    \/ DialogRejected

\* the directories rf603_gui.py is started in
WindowDirectories == {{"step"}, {"swing"}, {"decay"}, {"empty", "unordered"}}

\* rf603_gui.py is started and no recording is made
WindowInit ==
    /\ data = __init__.data
    /\ processed_data = __init__.processed_data
    /\ original_processed_data = __init__.original_processed_data
    /\ oscillation_start = __init__.oscillation_start
    /\ oscillation_end = __init__.oscillation_end
    /\ corrected_peaks = __init__.corrected_peaks
    /\ current_period = __init__.current_period
    /\ current_frequency = __init__.current_frequency
    /\ log_decrement = __init__.log_decrement
    /\ damping_ratio = __init__.damping_ratio
    /\ loss_factor = __init__.loss_factor
    /\ directory \in WindowDirectories
    /\ op = "__init__"
    /\ args = <<>>
    /\ ret = Ret(TRUE, "ok")
    /\ norm_src = <<>>
    /\ recorder = DataRecorder
    /\ main_window = MainWindow
    /\ pc = [Started EXCEPT !.events = "idle"]
    /\ analyzer = None

SpecWindow == WindowInit /\ [][WindowNext]_vars

----------------------------------------------------------------------------
(* Properties of the session (Spec) *)

\* C1: a normalize_data, crop_by_points, crop_by_time or reset_to_original
\* call that returns success leaves corrected_peaks, current_period,
\* current_frequency, log_decrement, damping_ratio and loss_factor None, and
\* once all six are None they stay None until an operation that estimates
\* (calculate_period_frequency_improved, auto_crop_oscillations which calls
\* it) or manual_peak_correction runs.
C1_InvalidatedUntilRecomputed ==
    [][LET absent(c, p, f, l, z, e) ==
               IsNone(c) /\ IsNone(p) /\ IsNone(f) /\ IsNone(l) /\ IsNone(z) /\ IsNone(e)
       IN /\ (/\ op' \in {"normalize_data", "crop_by_points", "crop_by_time",
                          "reset_to_original"}
              /\ ret'.ok)
             => absent(corrected_peaks', current_period', current_frequency',
                       log_decrement', damping_ratio', loss_factor')
          /\ (/\ absent(corrected_peaks, current_period, current_frequency,
                        log_decrement, damping_ratio, loss_factor)
              /\ op' \notin {"calculate_period_frequency_improved",
                             "auto_crop_oscillations", "manual_peak_correction"})
             => absent(corrected_peaks', current_period', current_frequency',
                       log_decrement', damping_ratio', loss_factor')]_vars

\* a crop by time has succeeded on a normalized recording and has left a
\* shorter series with no corrected peaks and no results
C1_Witness ==
    /\ op = "crop_by_time"
    /\ ret.ok
    /\ Len(processed_data.rows) < Len(original_processed_data.rows)
    /\ IsNone(corrected_peaks)
    /\ IsNone(current_period)
    /\ IsNone(log_decrement)

\* C2: whenever corrected_peaks is not None, calculate_period_frequency_improved
\* estimates from exactly that list, whatever its size.
C2_CorrectedUsedVerbatim ==
    (/\ op = "calculate_period_frequency_improved"
     /\ ~IsNone(corrected_peaks)
     /\ ret.why \in {"ok", "few_peaks"})
    => ret.used = corrected_peaks

\* C3: crop_by_points, crop_by_time and auto_crop_oscillations leave
\* original_processed_data as it was, and after a successful
\* reset_to_original the active series is that baseline: the rows
\* normalize_data read, each with its distance minus the first distance.
C3_BaselineFrozen ==
    [][/\ op' \in {"crop_by_points", "crop_by_time", "auto_crop_oscillations"}
          => original_processed_data' = original_processed_data
       /\ (op' = "reset_to_original" /\ ret'.ok)
          => /\ processed_data' = original_processed_data
             /\ processed_data'.hasNorm
             /\ Len(processed_data'.rows) = Len(norm_src)
             /\ \A i \in DOMAIN norm_src :
                    /\ processed_data'.rows[i].t = norm_src[i].t
                    /\ processed_data'.rows[i].d = norm_src[i].d
                    /\ processed_data'.rows[i].n = norm_src[i].d - norm_src[1].d]_vars

\* auto_crop_oscillations has cut the active series at the release point and
\* the baseline still holds the whole normalized recording
C3_Witness ==
    /\ op = "auto_crop_oscillations"
    /\ ret.ok
    /\ Len(processed_data.rows) < Len(original_processed_data.rows)
    /\ Len(original_processed_data.rows) = Len(norm_src)

\* C4: a crop_by_points that succeeds on a series of n samples records
\* 0 <= oscillation_start < oscillation_end <= n - 1, leaves consecutive
\* samples of the series, and leaves oscillation_end - oscillation_start + 1
\* of them.
C4_CropBounds ==
    [][(op' = "crop_by_points" /\ ret'.ok)
       => /\ 0 <= oscillation_start'
          /\ oscillation_start' < oscillation_end'
          /\ oscillation_end' <= Len(processed_data.rows) - 1
          /\ Len(processed_data'.rows) = oscillation_end' - oscillation_start' + 1
          /\ processed_data'.rows =
                 SubSeq(processed_data.rows, oscillation_start' + 1,
                        oscillation_start' + Len(processed_data'.rows))]_vars

\* C6: after a calculate_period_frequency_improved that stores a period, the
\* stored log_decrement, damping_ratio and loss_factor are the values
\* calculate_logarithmic_decrement gives for the peaks the period was
\* estimated from, or all three are None.
C6_ComputedAsUnit ==
    (op = "calculate_period_frequency_improved" /\ ret.ok)
    => \/ IsNone(log_decrement) /\ IsNone(damping_ratio) /\ IsNone(loss_factor)
       \/ [delta |-> log_decrement, zeta |-> damping_ratio, eta |-> loss_factor]
              = calculate_logarithmic_decrement(ret.used.val, distances_of(processed_data))

\* C7: when calculate_period_frequency_improved returns (None, None, None)
\* for fewer than 2 peaks, current_period, current_frequency, log_decrement,
\* damping_ratio and loss_factor are all None afterwards.
C7_AbsentAfterFewPeaks ==
    (op = "calculate_period_frequency_improved" /\ ret.why = "few_peaks")
    => /\ IsNone(current_period)
       /\ IsNone(current_frequency)
       /\ IsNone(log_decrement)
       /\ IsNone(damping_ratio)
       /\ IsNone(loss_factor)

\* C9: a stored damping_ratio is a number with 0 <= damping_ratio < 1.
C9_DampingInUnitInterval ==
    ~IsNone(damping_ratio)
    => /\ damping_ratio.kind = "fin"
       /\ 0 <= damping_ratio.v
       /\ damping_ratio.v < 1000

\* C10: on the recording t = 0 .. 0.6 s, distance = 100, 105, 100, 95, 100,
\* 97.5, 100 mm, loaded and normalized, calculate_period_frequency_improved
\* with no corrected peaks finds fewer than 2 peaks (none of the strategies
\* of the detection returns a list), returns (None, None, None), and no
\* period, frequency or decrement is stored.
C10_StepRecordingNoPeaks ==
    (/\ op = "calculate_period_frequency_improved"
     /\ ~IsNone(processed_data)
     /\ processed_data.hasNorm
     /\ timestamps_of(processed_data) = <<0, 1, 2, 3, 4, 5, 6>>
     /\ distances_of(processed_data) = <<0, 10, 0, -10, 0, -5, 0>>
     /\ IsNone(corrected_peaks))
    => /\ ~ret.ok
       /\ ret.why = "few_peaks"
       /\ ret.used = Some(<<>>)
       /\ IsNone(ret.period) /\ IsNone(ret.frequency) /\ IsNone(ret.peaks)
       /\ IsNone(current_period) /\ IsNone(current_frequency)
       /\ IsNone(log_decrement) /\ IsNone(damping_ratio) /\ IsNone(loss_factor)

\* the estimate has run on that recording, loaded and normalized, and has
\* returned for want of peaks
C10_Witness ==
    /\ op = "calculate_period_frequency_improved"
    /\ ~IsNone(processed_data)
    /\ processed_data.hasNorm
    /\ distances_of(processed_data) = <<0, 10, 0, -10, 0, -5, 0>>
    /\ IsNone(corrected_peaks)
    /\ ret.why = "few_peaks"

\* C10 as stated: on that recording the estimate returns at least 2 peaks, a
\* period of 0.3 s and a positive logarithmic decrement.
C10_StepRecordingEstimated ==
    (/\ op = "calculate_period_frequency_improved"
     /\ ~IsNone(processed_data)
     /\ processed_data.hasNorm
     /\ timestamps_of(processed_data) = <<0, 1, 2, 3, 4, 5, 6>>
     /\ distances_of(processed_data) = <<0, 10, 0, -10, 0, -5, 0>>
     /\ IsNone(corrected_peaks))
    => /\ ret.ok
       /\ ~IsNone(ret.peaks)
       /\ Len(ret.peaks.val) >= 2
       /\ ~IsNone(current_period)
       /\ current_period.num = 3 * current_period.den
       /\ ~IsNone(log_decrement)
       /\ log_decrement.kind = "fin"
       /\ log_decrement.v > 0

----------------------------------------------------------------------------
(* Properties of the numeric steps (SpecUnit) *)

\* C5: with 0 or 1 peaks the period estimate and
\* calculate_logarithmic_decrement both give None; with exactly 2 peaks the
\* period estimate gives a period, and calculate_logarithmic_decrement gives
\* a decrement exactly when the normalized distance at the second peak is
\* not 0.
C5_PeakCountGate ==
    /\ op = "period_estimate"
       => /\ Len(ret.used.val) < 2 => IsNone(ret.period) /\ IsNone(ret.frequency)
          /\ Len(ret.used.val) = 2 => ~IsNone(ret.period) /\ ~IsNone(ret.frequency)
    /\ op = "calculate_logarithmic_decrement"
       => /\ Len(ret.used.val) < 2
             => /\ IsNone(ret.decrement.val.delta)
                /\ IsNone(ret.decrement.val.zeta)
                /\ IsNone(ret.decrement.val.eta)
          /\ Len(ret.used.val) = 2
             => (IsNone(ret.decrement.val.delta)
                    <=> processed_data.rows[ret.used.val[2] + 1].n = 0)

\* calculate_logarithmic_decrement has been given 2 peaks, the second at a
\* sample at the level of the first sample, and has returned None
C5_Witness ==
    /\ op = "calculate_logarithmic_decrement"
    /\ Len(ret.used.val) = 2
    /\ processed_data.rows[ret.used.val[2] + 1].n = 0
    /\ IsNone(ret.decrement.val.delta)

\* C5 as stated: None for 0 or 1 peaks, and a value for exactly 2 peaks, from
\* both the period estimate and calculate_logarithmic_decrement.
C5_DefinedForTwoPeaks ==
    /\ op = "period_estimate"
       => /\ Len(ret.used.val) < 2 => IsNone(ret.period)
          /\ Len(ret.used.val) = 2 => ~IsNone(ret.period)
    /\ op = "calculate_logarithmic_decrement"
       => /\ Len(ret.used.val) < 2 => IsNone(ret.decrement.val.delta)
          /\ Len(ret.used.val) = 2 => ~IsNone(ret.decrement.val.delta)

\* C8: with 3 periods or more between consecutive peaks the period is the
\* mean of the periods p with Q1 - 1.5 IQR <= p <= Q3 + 1.5 IQR, so that of
\* 1, 1, 1, 1, 5 (in tenths of a second) the 5 is left out and the period is
\* 1; with fewer than 3 periods it is the mean of all of them.
C8_InterquartileFilter ==
    (op = "period_estimate" /\ Len(ret.used.val) >= 2)
    => LET peaks == ret.used.val
           periods == [i \in 1..(Len(peaks) - 1) |->
                           processed_data.rows[peaks[i + 1] + 1].t
                               - processed_data.rows[peaks[i] + 1].t]
           q1 == percentile4(periods, 1)
           q3 == percentile4(periods, 3)
           kept == {k \in DOMAIN periods :
                        5 * q1 - 3 * q3 <= 8 * periods[k] /\ 8 * periods[k] <= 5 * q3 - 3 * q1}
       IN /\ Len(periods) >= 3
             => ret.period = Rat(SeqSum(SelectIdx(periods, kept, 1)), Cardinality(kept))
          /\ Len(periods) < 3 => ret.period = Rat(SeqSum(periods), Len(periods))
          /\ periods = <<1, 1, 1, 1, 5>> => ret.period = Rat(4, 4)

\* the period has been estimated from six peaks 0.1, 0.1, 0.1, 0.1 and 0.5 s
\* apart, and is the mean of the four periods of 0.1 s
C8_Witness ==
    /\ op = "period_estimate"
    /\ ret.used = Some(<<0, 1, 2, 3, 4, 5>>)
    /\ timestamps_of(processed_data) = <<0, 1, 2, 3, 4, 9, 10>>
    /\ ret.period = Rat(4, 4)

\* C11: load_csv and normalize_data are all-or-nothing: whenever either one
\* returns False, data, processed_data, original_processed_data, the
\* oscillation bounds, corrected_peaks and the five results all have the
\* value they had before the call.
C11_AllOrNothing ==
    [][(op' \in {"load_csv", "normalize_data"} /\ ~ret'.ok)
       => /\ data' = data
          /\ processed_data' = processed_data
          /\ original_processed_data' = original_processed_data
          /\ oscillation_start' = oscillation_start
          /\ oscillation_end' = oscillation_end
          /\ corrected_peaks' = corrected_peaks
          /\ current_period' = current_period
          /\ current_frequency' = current_frequency
          /\ log_decrement' = log_decrement
          /\ damping_ratio' = damping_ratio
          /\ loss_factor' = loss_factor]_vars

\* C12: normalize_data on a session with no loaded data, and crop_by_time,
\* crop_by_points, reset_to_original, auto_crop_oscillations and
\* calculate_period_frequency_improved on a session normalize_data has given
\* no series, report failure and leave every session field as it was; so does
\* a crop_by_time with no sample at or after start_time or no sample at or
\* before end_time.
C12_PrerequisiteFailureKeepsState ==
    [][LET same == /\ data' = data
                   /\ processed_data' = processed_data
                   /\ original_processed_data' = original_processed_data
                   /\ oscillation_start' = oscillation_start
                   /\ oscillation_end' = oscillation_end
                   /\ corrected_peaks' = corrected_peaks
                   /\ current_period' = current_period
                   /\ current_frequency' = current_frequency
                   /\ log_decrement' = log_decrement
                   /\ damping_ratio' = damping_ratio
                   /\ loss_factor' = loss_factor
       IN /\ (op' = "normalize_data" /\ IsNone(data)) => (~ret'.ok /\ same)
          /\ (/\ op' \in {"crop_by_time", "crop_by_points", "reset_to_original",
                          "auto_crop_oscillations",
                          "calculate_period_frequency_improved"}
              /\ IsNone(processed_data))
             => (~ret'.ok /\ same)
          /\ (/\ op' = "crop_by_time"
              /\ ~IsNone(processed_data)
              /\ \/ \A i \in DOMAIN processed_data.rows :
                        processed_data.rows[i].t < args'[1]
                 \/ \A i \in DOMAIN processed_data.rows :
                        processed_data.rows[i].t > args'[2])
             => (~ret'.ok /\ same)]_vars

\* crop_by_time has been refused on a normalized recording whose last sample
\* lies before start_time, and the estimate computed before it is still stored
C12_Witness ==
    /\ op = "crop_by_time"
    /\ ~ret.ok
    /\ ~IsNone(processed_data)
    /\ processed_data.rows # <<>>
    /\ \A i \in DOMAIN processed_data.rows : processed_data.rows[i].t < args[1]
    /\ ~IsNone(current_period)

\* C13: load_csv fails on a source with no rows and on a source with a
\* timestamp lower than its predecessor, so the raw table, the active series
\* and the frozen baseline of a session are never empty and never hold a
\* timestamp lower than the one before it.
C13_SeriesWellFormed ==
    LET malformed(rows) ==
            \/ rows = <<>>
            \/ \E i \in 2..Len(rows) : rows[i].t < rows[i - 1].t
    IN /\ (op = "load_csv" /\ args[1] \in directory /\ malformed(FileRows(args[1])))
          => ~ret.ok
       /\ ~IsNone(data) => ~malformed(data.rows)
       /\ ~IsNone(processed_data) => ~malformed(processed_data.rows)
       /\ ~IsNone(original_processed_data) => ~malformed(original_processed_data.rows)

\* C14: whenever the session holds a normalized active series,
\* (oscillation_start, oscillation_end) is the index range of the frozen
\* baseline that the active series occupies: the active series is the rows
\* oscillation_start .. oscillation_end of original_processed_data.
C14_BoundsAreBaselineRange ==
    (/\ ~IsNone(processed_data)
     /\ ~IsNone(original_processed_data)
     /\ processed_data.hasNorm)
    => /\ 0 <= oscillation_start
       /\ oscillation_start <= oscillation_end
       /\ oscillation_end < Len(original_processed_data.rows)
       /\ processed_data.rows =
              SubSeq(original_processed_data.rows,
                     oscillation_start + 1, oscillation_end + 1)

\* C15: whenever choice 7 of the menu is taken on a normalized session whose
\* detection finds fewer than 2 peaks, the correction window is opened so that
\* peaks can be entered by hand; and whenever the window is closed with 2
\* peaks or more at distinct timestamps, the recomputation stores a period
\* and a frequency.
C15_ManualEntryRecovers ==
    [][op' = "main_choice7"
       => /\ (/\ ~IsNone(processed_data)
              /\ processed_data.hasNorm
              /\ Len(detect_peaks(distances_of(processed_data))) < 2)
             => ret'.why \in {"ok", "few_corrected"}
          /\ (/\ ret'.why \in {"ok", "few_corrected"}
              /\ Len(ret'.peaks.val) >= 2
              /\ \A i, j \in DOMAIN ret'.peaks.val :
                     i # j => processed_data.rows[ret'.peaks.val[i] + 1].t
                              # processed_data.rows[ret'.peaks.val[j] + 1].t)
             => (~IsNone(current_period') /\ ~IsNone(current_frequency'))]_vars

\* C16: when choice 10 of the menu has estimated and saved, the report holds
\* the note 'использованы исправленные пики' exactly when the period, the
\* frequency and the decrement it holds were computed from the corrected
\* peaks of the session.
C16_CorrectedNoteAccurate ==
    (/\ op = "main_choice10"
     /\ ret.ok
     /\ ret.why = "ok"
     /\ ret.report.complete)
    => (ret.report.corrected_note
        <=> (~IsNone(corrected_peaks) /\ ret.used = corrected_peaks))

\* C17: the CSV file stop_recording writes for the analysis, and the table
\* 'analyze current data' hands to perform_analysis, are read from data_points
\* only when the recording thread can append no further point.
C17_SnapshotAfterRecording ==
    /\ ~IsNone(recorder.csv) => ~recorder.csv.val.live
    /\ ~IsNone(main_window.analysed) => ~main_window.analysed.val.live

\* C18: after a successful crop_by_time(start_time, end_time) the active
\* series is the samples it held before the call from the first one with
\* timestamp >= start_time through the last one with timestamp <= end_time, and
\* every timestamp of it lies in [start_time, end_time].
C18_CropByTimeRange ==
    [][(op' = "crop_by_time" /\ ret'.ok)
       => LET rows == processed_data.rows
              from == {i \in DOMAIN rows : rows[i].t >= args'[1]}
              upto == {i \in DOMAIN rows : rows[i].t <= args'[2]}
          IN /\ from # {}
             /\ upto # {}
             /\ processed_data'.rows =
                    SubSeq(rows, CHOOSE i \in from : \A j \in from : i <= j,
                                 CHOOSE i \in upto : \A j \in upto : i >= j)
             /\ \A i \in DOMAIN processed_data'.rows :
                    /\ processed_data'.rows[i].t >= args'[1]
                    /\ processed_data'.rows[i].t <= args'[2]]_vars

\* C19: _find_peaks_adaptive returns the output of the first of strategy 1,
\* 2, 3, 4 that finds at least 3, 3, 2, 2 peaks, as that strategy computed
\* it, and the empty array when none does (a strategy that raises finds
\* nothing); so it never returns exactly 1 peak.
C19_FirstReachingStrategy ==
    op = "_find_peaks_adaptive"
    => LET signal == distances_of(processed_data)
           amplitude == SeqMax(signal) - SeqMin(signal)
       IN /\ Len(ret.val) # 1
          /\ ret.val = IF Len(strategy1(signal, amplitude)) >= 3
                       THEN strategy1(signal, amplitude)
                       ELSE IF Len(strategy2(signal)) >= 3 THEN strategy2(signal)
                       ELSE IF Len(strategy3(signal, amplitude)) >= 2
                       THEN strategy3(signal, amplitude)
                       ELSE IF Len(strategy4(signal)) >= 2 THEN strategy4(signal)
                       ELSE <<>>

\* strategies 1 and 2 found fewer than 3 peaks, strategy 3 found exactly one,
\* and the two inflection points of strategy 4 were returned
C19_Witness ==
    /\ op = "_find_peaks_adaptive"
    /\ Len(processed_data.rows) = SignalLen
    /\ Len(strategy3(distances_of(processed_data),
                     SeqMax(distances_of(processed_data))
                     - SeqMin(distances_of(processed_data)))) = 1
    /\ Len(ret.val) = 2
    /\ ret.val = strategy4(distances_of(processed_data))

\* C20: find_release_point(threshold) returns max(0, i - 5) for the first
\* index i from 1 through len - 11 whose 10 samples i .. i + 9 have
\* max - min > threshold, and 0 when no such index has; the windows that start
\* at index 0 and at index len - 10 are not examined.
C20_ReleasePointScan ==
    op = "find_release_point"
    => LET distances == distances_of(processed_data)
           qualifies(i) == \E j, k \in i..(i + 9) :
                               distances[j + 1] - distances[k + 1] > args[1]
           scanned == 1..(Len(distances) - 11)
       IN IF \E i \in scanned : qualifies(i)
          THEN \E i \in scanned :
                   /\ qualifies(i)
                   /\ \A j \in scanned : j < i => ~qualifies(j)
                   /\ ret.release_point = IF i - 5 > 0 THEN i - 5 ELSE 0
          ELSE ret.release_point = 0

\* a release has been found behind index 5 in a recording whose first window
\* qualifies as well
C20_Witness ==
    /\ op = "find_release_point"
    /\ ret.release_point > 0
    /\ \E j \in 1..10 : processed_data.rows[j].n # processed_data.rows[1].n

\* C20 as stated: find_release_point(threshold) returns max(0, i - 5) for the
\* first index i among all the windows of 10 samples that fit in the series
\* (i from 0 through len - 10) with max - min > threshold, and 0 when there is
\* none.
C20_EveryFittingWindow ==
    op = "find_release_point"
    => LET distances == distances_of(processed_data)
           qualifies(i) == \E j, k \in i..(i + 9) :
                               distances[j + 1] - distances[k + 1] > args[1]
           fitting == 0..(Len(distances) - 10)
       IN IF \E i \in fitting : qualifies(i)
          THEN \E i \in fitting :
                   /\ qualifies(i)
                   /\ \A j \in fitting : j < i => ~qualifies(j)
                   /\ ret.release_point = IF i - 5 > 0 THEN i - 5 ELSE 0
          ELSE ret.release_point = 0

\* the session as normalize_data leaves it with the given baseline
normalized_session(self, baseline) ==
    clear_results([self EXCEPT !.processed_data = baseline,
                               !.original_processed_data = baseline])

\* the fields an automatic crop reports on
outcome(r) ==
    [ret |-> r.ret,
     processed_data |-> r.self.processed_data,
     oscillation_start |-> r.self.oscillation_start,
     oscillation_end |-> r.self.oscillation_end,
     corrected_peaks |-> r.self.corrected_peaks,
     current_period |-> r.self.current_period,
     current_frequency |-> r.self.current_frequency,
     log_decrement |-> r.self.log_decrement,
     damping_ratio |-> r.self.damping_ratio,
     loss_factor |-> r.self.loss_factor]

\* C21: on a session with a baseline, auto_crop_oscillations(d) returns and
\* leaves (active series, crop bounds, corrected peaks, stored results) what
\* it returns and leaves when called directly after normalize_data on that
\* baseline, whatever crops, resets and corrections came before; and a second
\* call in a row with the same d returns and leaves what the first did.
C21_AutoCropFromBaseline ==
    [][(op' = "auto_crop_oscillations" /\ ~IsNone(original_processed_data))
       => /\ \A fresh \in {normalized_session(Self, original_processed_data)} :
                 \A again \in {auto_crop_oscillations(fresh, args'[1])} :
                     outcome(Result(Self', ret')) = outcome(again)
          /\ (op = "auto_crop_oscillations" /\ args = args')
             => outcome(Result(Self', ret')) = outcome(Result(Self, ret))]_vars

\* auto_crop_oscillations has cut the active series, so that calling it again
\* starts from a cropped series with bounds and results set
C21_Witness ==
    /\ op = "auto_crop_oscillations"
    /\ ret.ok
    /\ ~IsNone(original_processed_data)
    /\ processed_data # original_processed_data
    /\ oscillation_start > 0

----------------------------------------------------------------------------
(* Properties of the analysis handlers of MainWindow (SpecWindow) *)

\* C22: whenever an interactive correction (choice 7 of the menu of main(),
\* manual_correct_peaks of MainWindow) ends with 2 corrected peaks or more,
\* the period and the frequency it reports are those the interquartile
\* filter of calculate_period_frequency_improved gives for these peaks, and
\* the list is stored in corrected_peaks of the analyzer.
C22_CorrectionReusesPipeline ==
    /\ (op = "manual_correct_peaks" /\ ret.ok)
       => /\ Len(ret.peaks.val) >= 2
          /\ ret.period = period_estimate(ret.peaks.val,
                              timestamps_of(analyzer.val.processed_data)).period
          /\ ret.frequency = period_estimate(ret.peaks.val,
                                 timestamps_of(analyzer.val.processed_data)).frequency
          /\ main_window.result_period = ret.period
          /\ main_window.result_freq = ret.frequency
          /\ analyzer.val.corrected_peaks = ret.peaks
    /\ (op = "main_choice7" /\ ret.why = "ok")
       => /\ Len(ret.peaks.val) >= 2
          /\ ret.period = period_estimate(ret.peaks.val,
                                          timestamps_of(processed_data)).period
          /\ ret.frequency = period_estimate(ret.peaks.val,
                                             timestamps_of(processed_data)).frequency
          /\ current_period = ret.period
          /\ current_frequency = ret.frequency
          /\ corrected_peaks = ret.peaks

----------------------------------------------------------------------------
(* Properties of the two analyzer classes side by side (SpecTwin) *)

\* C23: after any sequence of load_csv, normalize_data,
\* auto_crop_oscillations and calculate_period_frequency_improved called on
\* an object of each class, with the two peak detectors giving the same
\* output, the two objects hold the same active series and the same period,
\* frequency, logarithmic decrement, damping ratio and loss factor (each None
\* in both or the same value in both).
C23_TwinsAgree ==
    /\ analyzer.val.processed_data = processed_data
    /\ analyzer.val.current_period = current_period
    /\ analyzer.val.current_frequency = current_frequency
    /\ analyzer.val.log_decrement = log_decrement
    /\ analyzer.val.damping_ratio = damping_ratio
    /\ analyzer.val.loss_factor = loss_factor

----------------------------------------------------------------------------
(* Further properties of the session (Spec)                               *)

\* a == b on two floats: nan equals nothing, itself included
float_eq(a, b) == a.kind # "nan" /\ b.kind # "nan" /\ a = b

\* C24: in every state log_decrement, damping_ratio and loss_factor are all
\* None or all stored, with loss_factor == 2 * damping_ratio; current_period
\* and current_frequency are both None or both stored, with
\* current_frequency the inverse of a positive current_period and 0 for any
\* other period.
C24_ResultsConsistent ==
    /\ IsNone(log_decrement) = IsNone(damping_ratio)
    /\ IsNone(damping_ratio) = IsNone(loss_factor)
    /\ ~IsNone(loss_factor)
       => float_eq(loss_factor, Fin(2 * damping_ratio.v))
    /\ IsNone(current_period) = IsNone(current_frequency)
    /\ (~IsNone(current_period) /\ current_period.num > 0)
       => /\ current_frequency.num * current_period.num
                = current_frequency.den * current_period.den
          /\ current_frequency.num > 0
    /\ (~IsNone(current_period) /\ current_period.num <= 0)
       => current_frequency.num = 0

\* a list of indices into a series of n samples, each larger than the one
\* before it
IsPeakList(peaks, n) ==
    /\ \A k \in 1..(Len(peaks) - 1) : peaks[k] < peaks[k + 1]
    /\ \A k \in DOMAIN peaks : peaks[k] \in 0..(n - 1)

\* the samples of the longest series a dialog is opened on
DialogLen == 4

\* the lists the dialog can hold after one edit of a list entered by hand
DialogEdits(n) ==
    {add_peak(PeakCorrectionDialog(peaks, TRUE), peak_idx).corrected_peaks :
         peaks \in PeakLists(n), peak_idx \in 0..(n - 1)}
    \cup UNION {{remove_peak(PeakCorrectionDialog(peaks, TRUE), current_row).corrected_peaks :
                     current_row \in 0..(Len(peaks) - 1)} : peaks \in PeakLists(n)}

\* every list the dialog holds after an edit is a peak list of its series
DialogListsOrdered ==
    \A n \in 1..DialogLen : \A peaks \in DialogEdits(n) : IsPeakList(peaks, n)

\* C25: the peak list an estimate was computed from (found by
\* _find_peaks_adaptive or corrected before), the list manual_peak_correction
\* stores after the clicks, the stored list whenever the active series has
\* the normalized column, and every list the dialog holds after an add or a
\* remove, are strictly increasing with every index in
\* [0, len(active series) - 1].
C25_PeakListsOrdered ==
    /\ (~IsNone(processed_data) /\ ~IsNone(ret.used))
       => IsPeakList(ret.used.val, Len(processed_data.rows))
    /\ (op \in {"manual_peak_correction", "main_choice7"} /\ ret.ok)
       => /\ ~IsNone(corrected_peaks)
          /\ IsPeakList(corrected_peaks.val, Len(processed_data.rows))
    /\ (~IsNone(corrected_peaks) /\ ~IsNone(processed_data) /\ processed_data.hasNorm)
       => IsPeakList(corrected_peaks.val, Len(processed_data.rows))
    /\ DialogListsOrdered

\* the list stored after the clicks on a cropped series has two peaks
C25_Witness ==
    /\ op = "manual_peak_correction"
    /\ ret.ok
    /\ Len(corrected_peaks.val) >= 2
    /\ processed_data # original_processed_data

----------------------------------------------------------------------------
(* Further properties of the numeric steps (SpecUnit)                     *)

\* the periods the estimate was asked for
periods_asked == periods_of(args[1], timestamps_of(processed_data))

\* C26: of 3 periods or more the interquartile filter keeps at least one, so
\* the mean is never taken over the unfiltered list for want of a kept period.
C26_FilterKeepsOne ==
    (op = "period_estimate" /\ Len(args[1]) >= 4)
    => /\ filter_periods(periods_asked) # <<>>
       /\ filtered_or_all(filter_periods(periods_asked), periods_asked)
              = filter_periods(periods_asked)

\* the filter was given 3 periods or more and removed one of them
C26_Witness ==
    /\ op = "period_estimate"
    /\ Len(args[1]) >= 4
    /\ Len(filter_periods(periods_asked)) < Len(periods_asked)

\* C27: whenever log_decrement, damping_ratio and loss_factor are stored they
\* are finite numbers, whatever peaks the decrement was computed from, a peak
\* of amplitude 0 followed by another peak included.
C27_DecrementFinite ==
    /\ ~IsNone(log_decrement) => log_decrement.kind = "fin"
    /\ ~IsNone(damping_ratio) => damping_ratio.kind = "fin"
    /\ ~IsNone(loss_factor) => loss_factor.kind = "fin"

\* C28: a call of auto_crop_oscillations that returns success False leaves
\* the active series, the crop bounds and the stored corrected peaks as they
\* were before the call.
C28_FailedAutoCropKeeps ==
    [][(op' = "auto_crop_oscillations" /\ ~ret'.ok)
       => /\ processed_data' = processed_data
          /\ oscillation_start' = oscillation_start
          /\ oscillation_end' = oscillation_end
          /\ corrected_peaks' = corrected_peaks]_vars

\* C29: whenever auto_crop_oscillations returns success True, the period,
\* the frequency and the peaks it returns with it are not None.
C29_SuccessHasEstimate ==
    (op = "auto_crop_oscillations" /\ ret.ok)
    => /\ ~IsNone(ret.period)
       /\ ~IsNone(ret.frequency)
       /\ ~IsNone(ret.peaks)

----------------------------------------------------------------------------
(* Properties of the automatic crop (SpecCrop)                            *)

\* C30: auto_crop_oscillations reports that the release point was not found
\* only when no window find_release_point scans on the baseline varies by
\* more than the threshold; with such a window at any i >= 1 the crop goes on.
C30_NotFoundMeansNoWindow ==
    (op = "auto_crop_oscillations" /\ ret.why = "release_not_found")
    => scanned_hits(distances_of(original_processed_data), ReleaseThreshold) = {}

============================================================================
